---- MODULE Spec2Model ----
(***************************************************************************)
(* A model of the clawdbot-overlay lookup services (the UTXO-indexed       *)
(* catalogs): ClawdbotAgentLookupService and ClawdbotServiceLookupService. *)
(*                                                                         *)
(* The two services are separate objects over separate SQL tables and      *)
(* share no state, so a behaviour of the pair is an interleaving of two    *)
(* independent behaviours.  A behaviour of this model follows one lookup   *)
(* service instance: Init constructs an instance of either class (svc),    *)
(* and table is the table that instance owns.                              *)
(*                                                                         *)
(* Strings the code measures or searches (name, serviceId, pricing.model,  *)
(* capabilities) are sequences of one-character strings; an identityKey,   *)
(* which the code only compares and matches against /^[0-9a-fA-F]{66}$/,   *)
(* is a run of one character, given by the character and the length;       *)
(* discriminators compared only for equality (protocol, type, topic, mode) *)
(* are TLA+ strings.  The columns description, channels, timestamp and     *)
(* createdAt are written by the upsert exactly like name and are read by   *)
(* nothing; description stands for them.  A payload carries its timestamp, *)
(* which the services topic manager type-checks.                           *)
(***************************************************************************)
EXTENDS Integers, Sequences, FiniteSets, TLC

VARIABLES
    svc,      \* the class of the lookup service instance
    table,    \* the rows of the instance's SQL table
    hist,     \* history: per key, what the host last caused to happen to it
    last,     \* the most recent completed call: its name and what it returned
    calls,    \* admission calls in flight (used by SpecRace only)
    submission, \* a transaction given to a topic manager (used by SpecTM only)
    decode,   \* a decoding in progress (used by SpecDecode and SpecRoundTrip)
    messages, \* the relay: its relay_messages table and clock (SpecRelay)
    subscribers, \* the relay's WebSocket registry and sockets (SpecSubscribers)
    overlay,  \* an OverlayService relay client (SpecOverlay)
    invoices  \* the joke service's invoices and clock (SpecInvoice)

vars == <<svc, table, hist, last, calls, submission, decode,
          messages, subscribers, overlay, invoices>>

(***************************************************************************)
(* Bounds.                                                                 *)
(***************************************************************************)
NumKeys == 3
NumCalls == 2
NumRaceKeys == 2
MaxOutputs == 3

(***************************************************************************)
(* Program constants.                                                      *)
(***************************************************************************)
PROTOCOL_ID == "clawdbot-overlay-v1"
TOPIC_IDENTITY == "tm_clawdbot_identity"
TOPIC_SERVICES == "tm_clawdbot_services"
AGENTS == "ls_clawdbot_agents"
SERVICES == "ls_clawdbot_services"
LookupLimit == 100

Classes == {AGENTS, SERVICES}
Topics == {TOPIC_IDENTITY, TOPIC_SERVICES}
Modes == {"locking-script", "whole-tx"}

OwnTopic(c) == IF c = AGENTS THEN TOPIC_IDENTITY ELSE TOPIC_SERVICES
OwnType(c) == IF c = AGENTS THEN "identity" ELSE "service"

(***************************************************************************)
(* Keys (txid, outputIndex) the host reports.  The first NumKeys of a      *)
(* fixed list; the list mixes keys that share a txid, share an outputIndex *)
(* and share neither.                                                      *)
(***************************************************************************)
Key(t, i) == [txid |-> t, outputIndex |-> i]
AllKeys == << Key("tx1", 0), Key("tx2", 0), Key("tx1", 1), Key("tx2", 1),
              Key("tx3", 0), Key("tx3", 1) >>
Keys == { AllKeys[i] : i \in 1..NumKeys }

(***************************************************************************)
(* JSON values.                                                            *)
(***************************************************************************)
JUndef == [t |-> "undefined"]
JNull == [t |-> "null"]
JStr(s) == [t |-> "string", v |-> s]
JNum(n) == [t |-> "number", v |-> n]
JArr(a) == [t |-> "array", v |-> a]

Run(c, n) == [ch |-> c, len |-> n]
K1 == JStr(Run("a", 66))
K2 == JStr(Run("B", 66))
Short65 == JStr(Run("a", 65))
NotHex == JStr(Run("g", 66))

T0 == JStr(<<"t">>)

Pricing(m, a) == [t |-> "object", model |-> m, amountSats |-> a]

IdentityDoc(ik, nm, ds, caps) ==
    [t |-> "object", protocol |-> PROTOCOL_ID, type |-> "identity",
     identityKey |-> ik, serviceId |-> JUndef, name |-> nm, description |-> ds,
     capabilities |-> caps, pricing |-> JUndef, timestamp |-> T0]

ServiceDoc(ik, sid, nm, ds, pr) ==
    [t |-> "object", protocol |-> PROTOCOL_ID, type |-> "service",
     identityKey |-> ik, serviceId |-> sid, name |-> nm, description |-> ds,
     capabilities |-> JUndef, pricing |-> pr, timestamp |-> T0]

N1 == JStr(<<"b", "o", "t">>)
N2 == JStr(<<"B", "o", "b">>)
Empty == JStr(<<>>)
A == JStr(<<"A">>)
B == JStr(<<"B">>)
D1 == JStr(<<"d", "1">>)
D2 == JStr(<<"d", "2">>)
Fixed == JStr(<<"f", "i", "x">>)
C1cap == JStr(<<"c", "1">>)

(* Identity payloads: three that satisfy the documented schema, three     *)
(* that break one rule of it each and one that breaks them all.            *)
IdentityDocs ==
    { IdentityDoc(K1, N1, D1, JArr(<<C1cap>>)),
      IdentityDoc(K1, N2, D2, JArr(<<>>)),
      IdentityDoc(K2, N1, D1, JArr(<<C1cap>>)),
      IdentityDoc(Short65, N1, D1, JArr(<<>>)),
      IdentityDoc(K1, Empty, D1, JArr(<<>>)),
      IdentityDoc(K1, N1, D1, C1cap),
      IdentityDoc(Short65, Empty, D1, C1cap) }

(* Service payloads: four valid ones (two of them the same                 *)
(* (identityKey, serviceId) at different prices) and six that break the    *)
(* topic manager's rules, one of them without a pricing object.            *)
ServiceDocs ==
    { ServiceDoc(K1, A, N1, D1, Pricing(Fixed, JNum(5))),
      ServiceDoc(K1, A, N2, D2, Pricing(Fixed, JNum(0))),
      ServiceDoc(K1, B, N1, D1, Pricing(Fixed, JNum(5))),
      ServiceDoc(K2, A, N1, D1, Pricing(Fixed, JNum(5))),
      ServiceDoc(K1, A, N1, D1, Pricing(Fixed, JNum(-1))),
      ServiceDoc(K1, Empty, N1, D1, Pricing(Fixed, JNum(5))),
      ServiceDoc(NotHex, A, N1, D1, Pricing(Fixed, JNum(5))),
      ServiceDoc(K1, B, N1, D1, Pricing(Empty, JNum(5))),
      ServiceDoc(NotHex, Empty, N1, D1, Pricing(Empty, JNum(-1))),
      ServiceDoc(K1, A, N1, D1, JUndef) }

Docs == IdentityDocs \cup ServiceDocs \cup {JNull, JNum(5)}

(***************************************************************************)
(* Locking scripts.  A script is its chunks, as @bsv/sdk exposes them: the *)
(* legacy form has one chunk per push, the collapsed form (SDK v1.10+) has *)
(* everything after OP_RETURN as one blob in chunks[1].data.  A push is    *)
(* represented by the text its bytes decode to (TextDecoder), a blob by    *)
(* its pushdata elements, each with the opcode that introduces it.         *)
(***************************************************************************)
Plain(s) == [kind |-> "plain", s |-> s]
JsonText(d) == [kind |-> "json", doc |-> d]

NoData == [k |-> "none"]
Bytes(text) == [k |-> "bytes", text |-> text]
Blob(items) == [k |-> "blob", items |-> items]
Chunk(op, data) == [op |-> op, data |-> data]
Item(enc, text) == [enc |-> enc, text |-> text]

Legacy(tag, text) ==
    [chunks |-> << Chunk("OP_FALSE", NoData), Chunk("OP_RETURN", NoData),
                   Chunk("PUSH", Bytes(tag)), Chunk("PUSH", Bytes(text)) >>]
Collapsed(items) ==
    [chunks |-> << Chunk("OP_FALSE", NoData), Chunk("OP_RETURN", Blob(items)) >>]

GoodIdentity == IdentityDoc(K1, N1, D1, JArr(<<C1cap>>))
GoodService == ServiceDoc(K1, A, N1, D1, Pricing(Fixed, JNum(5)))

WellFormedScripts ==
    { Legacy(Plain(PROTOCOL_ID), JsonText(d)) : d \in Docs }
    \cup { Collapsed(<< Item("direct", Plain(PROTOCOL_ID)), Item(e, JsonText(d)) >>) :
             e \in {"pd1", "pd2"}, d \in {GoodIdentity, GoodService} }
    \cup { [chunks |-> << Chunk("OP_FALSE", NoData), Chunk("OP_RETURN", NoData),
                          Chunk("OP_1", NoData), Chunk("PUSH", Bytes(Plain(PROTOCOL_ID))),
                          Chunk("PUSH", Bytes(JsonText(d))) >>] :
             d \in {GoodIdentity, GoodService} }

MalformedScripts ==
    { [chunks |-> << Chunk("OP_TRUE", NoData), Chunk("OP_RETURN", NoData),
                     Chunk("PUSH", Bytes(Plain(PROTOCOL_ID))),
                     Chunk("PUSH", Bytes(JsonText(d))) >>] : d \in {GoodIdentity, GoodService} }
    \cup { Legacy(Plain("other-protocol"), JsonText(d)) : d \in {GoodIdentity, GoodService} }
    \cup { Legacy(Plain(PROTOCOL_ID), Plain("{not json")),
           [chunks |-> << Chunk("OP_FALSE", NoData), Chunk("OP_RETURN", NoData),
                          Chunk("PUSH", Bytes(Plain(PROTOCOL_ID))) >>],
           Collapsed(<< Item("direct", Plain(PROTOCOL_ID)), Item("pd4", JsonText(GoodService)) >>),
           Collapsed(<< Item("badop", Plain("")), Item("direct", Plain(PROTOCOL_ID)),
                        Item("direct", JsonText(GoodIdentity)) >>),
           Collapsed(<< >>) }

Scripts == WellFormedScripts \cup MalformedScripts

(***************************************************************************)
(* extractOpReturnPushes of the lookup services (the same code in both):   *)
(* the legacy branch keeps every chunk that has data; the collapsed branch *)
(* re-parses the blob, knows the direct, PUSHDATA1 and PUSHDATA2 opcodes   *)
(* and stops at anything else (PUSHDATA4 included).                        *)
(***************************************************************************)
RECURSIVE LegacyPushes(_)
LegacyPushes(chunks) ==
    IF chunks = << >> THEN << >>
    ELSE IF Head(chunks).data.k # "none"
         THEN << Head(chunks).data.text >> \o LegacyPushes(Tail(chunks))
         ELSE LegacyPushes(Tail(chunks))

RECURSIVE ReparseBlob(_)
ReparseBlob(items) ==
    IF items = << >> THEN << >>
    ELSE IF Head(items).enc \in {"direct", "pd1", "pd2"}
         THEN << Head(items).text >> \o ReparseBlob(Tail(items))
         ELSE << >>

NoPushes == [ok |-> FALSE, pushes |-> << >>]

extractOpReturnPushes(script) ==
    LET chunks == script.chunks IN
    IF /\ Len(chunks) >= 4
       /\ chunks[1].op = "OP_FALSE"
       /\ chunks[2].op = "OP_RETURN"
    THEN [ok |-> TRUE, pushes |-> LegacyPushes(SubSeq(chunks, 3, Len(chunks)))]
    ELSE IF /\ Len(chunks) = 2
            /\ chunks[1].op = "OP_FALSE"
            /\ chunks[2].op = "OP_RETURN"
            /\ chunks[2].data.k = "blob"
         THEN LET pushes == ReparseBlob(chunks[2].data.items) IN
              IF Len(pushes) >= 2 THEN [ok |-> TRUE, pushes |-> pushes] ELSE NoPushes
         ELSE NoPushes

(* JSON.parse of the second push and the type check, inside the try: a     *)
(* text that is not JSON throws, property access on null throws, both are  *)
(* caught and give null; a JSON scalar has no type property.               *)
ParseTyped(script, type) ==
    LET ex == extractOpReturnPushes(script) IN
    IF ~ex.ok \/ Len(ex.pushes) < 2 THEN JNull
    ELSE IF ~(ex.pushes[1].kind = "plain" /\ ex.pushes[1].s = PROTOCOL_ID) THEN JNull
    ELSE IF ex.pushes[2].kind # "json" THEN JNull
    ELSE LET payload == ex.pushes[2].doc IN
         IF payload.t # "object" THEN JNull
         ELSE IF payload.type # type THEN JNull
         ELSE payload

parseIdentityFromScript(script) == ParseTyped(script, "identity")
parseServiceFromScript(script) == ParseTyped(script, "service")

(***************************************************************************)
(* JSON.stringify of the capabilities value as written to the text column: *)
(* an array of strings, a bare string, or undefined (stored as NULL).      *)
(***************************************************************************)
Quote == "\""
Quoted(s) == << Quote >> \o s \o << Quote >>

RECURSIVE JoinQuoted(_)
JoinQuoted(a) ==
    IF a = << >> THEN << >>
    ELSE IF Len(a) = 1 THEN Quoted(a[1].v)
    ELSE Quoted(a[1].v) \o << "," >> \o JoinQuoted(Tail(a))

JSONstringify(v) ==
    IF v.t = "array" THEN JStr(<< "[" >> \o JoinQuoted(v.v) \o << "]" >>)
    ELSE IF v.t = "string" THEN JStr(Quoted(v.v))
    ELSE JUndef

(***************************************************************************)
(* Rows and the SQL statements the services issue through Knex.            *)
(***************************************************************************)
AgentRow(k, data) ==
    [txid |-> k.txid, outputIndex |-> k.outputIndex,
     identityKey |-> data.identityKey, name |-> data.name,
     description |-> data.description,
     capabilities |-> JSONstringify(data.capabilities)]

ServiceRow(k, data) ==
    [txid |-> k.txid, outputIndex |-> k.outputIndex,
     identityKey |-> data.identityKey, serviceId |-> data.serviceId,
     name |-> data.name, description |-> data.description,
     pricingModel |-> data.pricing.model, pricingSats |-> data.pricing.amountSats]

KeyOf(r) == Key(r.txid, r.outputIndex)
RowsAt(T, k) == { r \in T : KeyOf(r) = k }
HasRow(T, k) == RowsAt(T, k) # {}

(* Variant: onConflict(...).ignore() in place of merge(): a conflicting    *)
(* row keeps its old values.                                               *)
InsertIgnore(T, row) == IF HasRow(T, KeyOf(row)) THEN T ELSE T \cup {row}

(* insert(row).onConflict(['txid','outputIndex']).merge(): merge() without *)
(* arguments sets every inserted column of the conflicting row to the new  *)
(* value.                                                                  *)
Upsert(T, row) == { r \in T : KeyOf(r) # KeyOf(row) } \cup {row}

(* Variant: where({txid}).delete().                                        *)
DeleteWholeTx(T, k) == { r \in T : r.txid # k.txid }

(* where({txid, outputIndex}).delete()                                     *)
DeleteKey(T, k) == { r \in T : ~(r.txid = k.txid /\ r.outputIndex = k.outputIndex) }

(* Variants of the dedup delete: one that removes every other row of the   *)
(* pair (NOT (txid = ? AND outputIndex = ?)), one that is absent (as in     *)
(* src/src/lookup-services/ClawdbotServiceLookupService.ts), one whose      *)
(* where() names the identityKey alone.                                     *)
DedupAllOthers(T, k, data) ==
    { r \in T : ~( /\ r.identityKey = data.identityKey
                   /\ r.serviceId = data.serviceId
                   /\ ~(r.txid = k.txid /\ r.outputIndex = k.outputIndex) ) }
NoDedup(T, k, data) == T
DedupByProvider(T, k, data) ==
    { r \in T : ~( /\ r.identityKey = data.identityKey
                   /\ ~(r.txid = k.txid)
                   /\ ~(r.outputIndex = k.outputIndex) ) }

DedupByServiceId(T, k, data) ==
    { r \in T : ~( /\ r.serviceId = data.serviceId
                   /\ ~(r.txid = k.txid)
                   /\ ~(r.outputIndex = k.outputIndex) ) }

(* where({identityKey, serviceId}).andWhereNot({txid, outputIndex})        *)
(* .delete(): Knex applies whereNot to an object column by column, so the  *)
(* statement is                                                            *)
(*   identityKey = ? AND serviceId = ? AND NOT txid = ? AND NOT            *)
(*   outputIndex = ?                                                       *)
DedupDelete(T, k, data) ==
    { r \in T : ~( /\ r.identityKey = data.identityKey
                   /\ r.serviceId = data.serviceId
                   /\ ~(r.txid = k.txid)
                   /\ ~(r.outputIndex = k.outputIndex) ) }

(***************************************************************************)
(* The handlers, each as the function from the table before the call to    *)
(* the table after it and what the call returns (the promise resolves to   *)
(* void, or rejects).                                                      *)
(***************************************************************************)
Void == [kind |-> "void"]
Throw(e) == [kind |-> "throw", error |-> e]
Result(T, r) == [table |-> T, ret |-> r]

(* Variant: one row per identityKey, the rows of the same agent at other    *)
(* keys deleted before the insert (what the service catalog does for       *)
(* (identityKey, serviceId)).                                              *)
AgentInsertUniqueIdentity(T, k, data) ==
    Result(Upsert({ r \in T : r.identityKey # data.identityKey \/ KeyOf(r) = k },
                  AgentRow(k, data)), Void)

AgentInsert(T, k, data) == Result(Upsert(T, AgentRow(k, data)), Void)

(* Variant: no guard on the topic. *)
AgentAdmitsAnyTopic(T, mode, topic, k, script) ==
    IF mode # "locking-script" THEN Result(T, Void)
    ELSE LET data == parseIdentityFromScript(script) IN
         IF data.t = "null" THEN Result(T, Void)
         ELSE AgentInsert(T, k, data)

AgentOutputAdmittedByTopic(T, mode, topic, k, script) ==
    IF mode # "locking-script" THEN Result(T, Void)
    ELSE IF topic # TOPIC_IDENTITY THEN Result(T, Void)
    ELSE LET data == parseIdentityFromScript(script) IN
         IF data.t = "null" THEN Result(T, Void)
         ELSE AgentInsert(T, k, data)

(* Variant: an UPDATE of the row at the key in place of the upsert: no row  *)
(* is written when the key has none.                                       *)
ServiceUpdateOnly(T, k, data) ==
    IF data.pricing.t # "object" THEN Result(T, Throw("TypeError"))
    ELSE Result(IF HasRow(T, k) THEN Upsert(T, ServiceRow(k, data)) ELSE T, Void)

(* The insert object is built after the dedup delete has completed:        *)
(* data.pricing.model throws a TypeError when the payload has no pricing.  *)
ServiceInsert(T, k, data) ==
    IF data.pricing.t # "object" THEN Result(T, Throw("TypeError"))
    ELSE Result(Upsert(T, ServiceRow(k, data)), Void)

ServiceOutputAdmittedByTopic(T, mode, topic, k, script) ==
    IF mode # "locking-script" THEN Result(T, Void)
    ELSE IF topic # TOPIC_SERVICES THEN Result(T, Void)
    ELSE LET data == parseServiceFromScript(script) IN
         IF data.t = "null" THEN Result(T, Void)
         ELSE ServiceInsert(DedupDelete(T, k, data), k, data)

(* Variants: a spend handler guarding on the other service's topic, an     *)
(* eviction handler deleting by txid alone.                                *)
SpentGuardsIdentityTopic(T, topic, k) ==
    IF topic # TOPIC_IDENTITY THEN Result(T, Void) ELSE Result(DeleteKey(T, k), Void)
EvictedByTxid(T, k) == Result({ r \in T : r.txid # k.txid }, Void)

AgentOutputSpent(T, topic, k) ==
    IF topic # TOPIC_IDENTITY THEN Result(T, Void) ELSE Result(DeleteKey(T, k), Void)

ServiceOutputSpent(T, topic, k) ==
    IF topic # TOPIC_SERVICES THEN Result(T, Void) ELSE Result(DeleteKey(T, k), Void)

AgentOutputEvicted(T, k) == Result(DeleteKey(T, k), Void)
ServiceOutputEvicted(T, k) == Result(DeleteKey(T, k), Void)

outputAdmittedByTopic(c, T, mode, topic, k, script) ==
    IF c = AGENTS THEN AgentOutputAdmittedByTopic(T, mode, topic, k, script)
    ELSE ServiceOutputAdmittedByTopic(T, mode, topic, k, script)
outputSpent(c, T, topic, k) ==
    IF c = AGENTS THEN AgentOutputSpent(T, topic, k) ELSE ServiceOutputSpent(T, topic, k)
outputEvicted(c, T, k) ==
    IF c = AGENTS THEN AgentOutputEvicted(T, k) ELSE ServiceOutputEvicted(T, k)

(***************************************************************************)
(* lookup.  SQLite's LIKE is a substring match that ignores ASCII case.    *)
(* The rows come back in no specified order, at most LookupLimit of them:  *)
(* an answer is the set of keys returned.                                  *)
(***************************************************************************)
UpperCase == << "A", "B", "C", "D", "E", "F", "G", "H", "I", "J", "K", "L", "M",
                "N", "O", "P", "Q", "R", "S", "T", "U", "V", "W", "X", "Y", "Z" >>
LowerCase == << "a", "b", "c", "d", "e", "f", "g", "h", "i", "j", "k", "l", "m",
                "n", "o", "p", "q", "r", "s", "t", "u", "v", "w", "x", "y", "z" >>
Lower(ch) ==
    IF \E i \in 1..Len(UpperCase) : UpperCase[i] = ch
    THEN LowerCase[CHOOSE i \in 1..Len(UpperCase) : UpperCase[i] = ch]
    ELSE ch
LowerAll(s) == [i \in 1..Len(s) |-> Lower(s[i])]

Contains(hay, needle) ==
    \E i \in 0..(Len(hay) - Len(needle)) :
        \A j \in 1..Len(needle) : hay[i + j] = needle[j]

Like(col, needle) == col.t = "string" /\ Contains(LowerAll(col.v), LowerAll(needle))

(* if (query.x): a missing field and the empty string are both falsy.      *)
Truthy(v) == v.t = "string" /\ v.v # << >>
TruthyKey(v) == v.t = "string" /\ v.v.len > 0

AgentQuery(ik, nm, cap) == [identityKey |-> ik, name |-> nm, capability |-> cap]
ServiceQuery(st, pv, mx) == [serviceType |-> st, provider |-> pv, maxPriceSats |-> mx]

AgentMatches(r, q) ==
    /\ TruthyKey(q.identityKey) => r.identityKey = q.identityKey
    /\ Truthy(q.name) => Like(r.name, q.name.v)
    /\ Truthy(q.capability) => Like(r.capabilities, Quoted(q.capability.v))

(* Variants: the price filter behind a truthiness test (if               *)
(* (query.maxPriceSats)), and as a strict bound.                           *)
ServiceMatchesTruthyPrice(r, q) ==
    /\ Truthy(q.serviceType) => r.serviceId = q.serviceType
    /\ TruthyKey(q.provider) => r.identityKey = q.provider
    /\ (q.maxPriceSats.t = "number" /\ q.maxPriceSats.v # 0) =>
           (r.pricingSats.t = "number" /\ r.pricingSats.v <= q.maxPriceSats.v)
ServiceMatchesStrict(r, q) ==
    /\ Truthy(q.serviceType) => r.serviceId = q.serviceType
    /\ TruthyKey(q.provider) => r.identityKey = q.provider
    /\ q.maxPriceSats.t = "number" =>
           (r.pricingSats.t = "number" /\ r.pricingSats.v < q.maxPriceSats.v)

ServiceMatches(r, q) ==
    /\ Truthy(q.serviceType) => r.serviceId = q.serviceType
    /\ TruthyKey(q.provider) => r.identityKey = q.provider
    /\ q.maxPriceSats.t = "number" =>
           (r.pricingSats.t = "number" /\ r.pricingSats.v <= q.maxPriceSats.v)

Matching(c, T, q) ==
    IF c = AGENTS THEN { r \in T : AgentMatches(r, q) }
    ELSE { r \in T : ServiceMatches(r, q) }

Limit(S, n) ==
    IF Cardinality(S) <= n THEN {S} ELSE { X \in SUBSET S : Cardinality(X) = n }

(* The answers lookup may give: one per choice of at most 100 rows.        *)
lookup(c, T, q) ==
    { { KeyOf(r) : r \in X } : X \in Limit(Matching(c, T, q), LookupLimit) }

Queries(c) ==
    IF c = AGENTS
    THEN { AgentQuery(JUndef, JUndef, JUndef), AgentQuery(K1, JUndef, JUndef),
           AgentQuery(JUndef, JStr(<<"B", "O">>), C1cap) }
    ELSE { ServiceQuery(JUndef, JUndef, JUndef), ServiceQuery(A, JUndef, JUndef),
           ServiceQuery(JUndef, K1, JNum(0)) }

(***************************************************************************)
(* History of a key, kept from the host's notifications alone:             *)
(*   never      no admission of the key has stored a row                   *)
(*   live       the last admission of the key stored a row for pair, and  *)
(*              no spend, eviction or dedup has been reported for it since *)
(*   superseded a later service admission for the same                     *)
(*              (identityKey, serviceId) ran its dedup delete against it   *)
(*   removed    reported spent (on this service's topic) or evicted        *)
(***************************************************************************)
PairOf(d) == [identityKey |-> d.identityKey, serviceId |-> d.serviceId]
NoPair == [identityKey |-> JUndef, serviceId |-> JUndef]
Never == [st |-> "never", pair |-> NoPair]
Live(d) == [st |-> "live", pair |-> PairOf(d)]
Superseded == [st |-> "superseded", pair |-> NoPair]
Removed == [st |-> "removed", pair |-> NoPair]

parseFromScript(c, script) ==
    IF c = AGENTS THEN parseIdentityFromScript(script) ELSE parseServiceFromScript(script)

Accepted(c, mode, topic, script) ==
    /\ mode = "locking-script"
    /\ topic = OwnTopic(c)
    /\ parseFromScript(c, script).t = "object"

HistDedup(h, c, k, data) ==
    [x \in Keys |->
        IF /\ c = SERVICES
           /\ h[x].st = "live"
           /\ h[x].pair = PairOf(data)
           /\ x.txid # k.txid
           /\ x.outputIndex # k.outputIndex
        THEN Superseded
        ELSE h[x]]

HistStore(h, k, data) == [h EXCEPT ![k] = Live(data)]

HistRemove(h, k) ==
    [h EXCEPT ![k] = IF @.st \in {"live", "superseded"} THEN Removed ELSE @]

(***************************************************************************)
(* The sequential specification: the host makes one call at a time and     *)
(* waits for it; every action is a whole handler.                          *)
(***************************************************************************)
NoCall == [pc |-> "idle", key |-> JUndef, data |-> JNull, ret |-> Void,
           deletedAt |-> 0, insertedAt |-> 0]
Call(op, ret) == [op |-> op, ret |-> ret]
NoSubmission ==
    [tm |-> "none", outputs |-> << >>, previousCoins |-> << >>,
     result |-> [kind |-> "pending"], delivered |-> {}]
NoDecode == [pc |-> "none"]
Unused == [pc |-> "none"]
CatalogOnly ==
    /\ messages = Unused
    /\ subscribers = Unused
    /\ overlay = Unused
    /\ invoices = Unused

Init ==
    /\ svc \in Classes
    /\ table = {}
    /\ hist = [k \in Keys |-> Never]
    /\ last = Call("none", Void)
    /\ calls = [c \in 1..NumCalls |-> NoCall]
    /\ submission = NoSubmission
    /\ decode = NoDecode
    /\ CatalogOnly

(* The admissions the host delivers.  The handlers are functions of the    *)
(* table, the key and the notification, and the properties of one call are *)
(* checked over every script of Scripts; the notifications that drive the  *)
(* table are those with distinct effects: payloads of the service's own    *)
(* type in the legacy and the collapsed form, a payload of the other type, *)
(* a malformed script, and one notification each off mode and off topic    *)
(* (which return before the script is read).                               *)
AgentPayloads ==
    { GoodIdentity,
      IdentityDoc(K1, N2, D2, JArr(<<>>)),
      IdentityDoc(K2, N1, D1, JArr(<<C1cap>>)),
      IdentityDoc(Short65, Empty, D1, C1cap) }
ServicePayloads ==
    { GoodService,
      ServiceDoc(K1, A, N2, D2, Pricing(Fixed, JNum(0))),
      ServiceDoc(K2, A, N1, D1, Pricing(Fixed, JNum(5))),
      ServiceDoc(NotHex, Empty, N1, D1, Pricing(Empty, JNum(-1))),
      ServiceDoc(K1, A, N1, D1, JUndef) }

DeliveredScripts(docs, good, other) ==
    { Legacy(Plain(PROTOCOL_ID), JsonText(d)) : d \in docs }
    \cup { Collapsed(<< Item("direct", Plain(PROTOCOL_ID)), Item("pd1", JsonText(good)) >>),
           Legacy(Plain(PROTOCOL_ID), JsonText(other)),
           Legacy(Plain(PROTOCOL_ID), Plain("{not json")) }

AgentNotifications ==
    ({"locking-script"} \X {TOPIC_IDENTITY}
        \X DeliveredScripts(AgentPayloads, GoodIdentity, GoodService))
    \cup { <<"whole-tx", TOPIC_IDENTITY, Legacy(Plain(PROTOCOL_ID), JsonText(GoodIdentity))>>,
           <<"locking-script", TOPIC_SERVICES, Legacy(Plain(PROTOCOL_ID), JsonText(GoodIdentity))>> }
ServiceNotifications ==
    ({"locking-script"} \X {TOPIC_SERVICES}
        \X DeliveredScripts(ServicePayloads, GoodService, GoodIdentity))
    \cup { <<"whole-tx", TOPIC_SERVICES, Legacy(Plain(PROTOCOL_ID), JsonText(GoodService))>>,
           <<"locking-script", TOPIC_IDENTITY, Legacy(Plain(PROTOCOL_ID), JsonText(GoodService))>> }
Notifications(c) == IF c = AGENTS THEN AgentNotifications ELSE ServiceNotifications

OutputAdmittedByTopic(mode, topic, k, script) ==
    LET res == outputAdmittedByTopic(svc, table, mode, topic, k, script)
        data == parseFromScript(svc, script)
        acc == Accepted(svc, mode, topic, script)
        h1 == IF acc THEN HistDedup(hist, svc, k, data) ELSE hist
    IN  /\ table' = res.table
        /\ hist' = IF acc /\ res.ret.kind = "void" THEN HistStore(h1, k, data) ELSE h1
        /\ last' = Call("outputAdmittedByTopic", res.ret)
        /\ UNCHANGED <<svc, calls, submission, decode, messages, subscribers, overlay, invoices>>

OutputSpent(topic, k) ==
    LET res == outputSpent(svc, table, topic, k) IN
        /\ table' = res.table
        /\ hist' = IF topic = OwnTopic(svc) THEN HistRemove(hist, k) ELSE hist
        /\ last' = Call("outputSpent", res.ret)
        /\ UNCHANGED <<svc, calls, submission, decode, messages, subscribers, overlay, invoices>>

OutputEvicted(k) ==
    LET res == outputEvicted(svc, table, k) IN
        /\ table' = res.table
        /\ hist' = HistRemove(hist, k)
        /\ last' = Call("outputEvicted", res.ret)
        /\ UNCHANGED <<svc, calls, submission, decode, messages, subscribers, overlay, invoices>>

Lookup(q) ==
    /\ \E answer \in lookup(svc, table, q) :
           last' = Call("lookup", [kind |-> "rows", keys |-> answer])
    /\ UNCHANGED <<svc, table, hist, calls, submission, decode, messages, subscribers, overlay, invoices>>

Next ==
    \/ \E n \in Notifications(svc), k \in Keys : OutputAdmittedByTopic(n[1], n[2], k, n[3])
    \/ \E topic \in Topics, k \in Keys : OutputSpent(topic, k)
    \/ \E k \in Keys : OutputEvicted(k)
    \/ \E q \in Queries(svc) : Lookup(q)

Spec == Init /\ [][Next]_vars

(***************************************************************************)
(* Properties of the sequential specification.                             *)
(***************************************************************************)
RowOf(c, k, data) == IF c = AGENTS THEN AgentRow(k, data) ELSE ServiceRow(k, data)
SamePair(r1, r2) == r1.identityKey = r2.identityKey /\ r1.serviceId = r2.serviceId
DifferInBoth(k1, k2) == k1.txid # k2.txid /\ k1.outputIndex # k2.outputIndex

(* The validator schema of spec section 4.2, on a decoded payload and on   *)
(* the row stored from it.                                                 *)
HexChars == { "0", "1", "2", "3", "4", "5", "6", "7", "8", "9",
              "a", "b", "c", "d", "e", "f", "A", "B", "C", "D", "E", "F" }
IsHex66(v) == v.t = "string" /\ v.v.len = 66 /\ v.v.ch \in HexChars
NonEmpty(v) == v.t = "string" /\ v.v # << >>
NonNegative(v) == v.t = "number" /\ v.v >= 0

MeetsSchema(c, d) ==
    /\ d.t = "object"
    /\ d.type = OwnType(c)
    /\ IsHex66(d.identityKey)
    /\ NonEmpty(d.name)
    /\ IF c = AGENTS THEN d.capabilities.t = "array"
       ELSE /\ NonEmpty(d.serviceId)
            /\ d.pricing.t = "object"
            /\ NonEmpty(d.pricing.model)
            /\ NonNegative(d.pricing.amountSats)

RowMeetsSchema(c, r) ==
    /\ IsHex66(r.identityKey)
    /\ NonEmpty(r.name)
    /\ IF c = AGENTS
       THEN r.capabilities.t = "string" /\ Head(r.capabilities.v) = "["
       ELSE /\ NonEmpty(r.serviceId)
            /\ NonEmpty(r.pricingModel)
            /\ NonNegative(r.pricingSats)

C2_OneRowPerPair ==
    svc = SERVICES => \A r1, r2 \in table : SamePair(r1, r2) => r1 = r2

(* C5: after an accepted admission of k completes, a lookup filtered on    *)
(* the record's identityKey returns k; once k has been reported spent or   *)
(* evicted no lookup returns k until k is admitted again.                  *)
ByIdentityKey(c, ik) ==
    IF c = AGENTS THEN AgentQuery(ik, JUndef, JUndef) ELSE ServiceQuery(JUndef, ik, JUndef)

C6_SpentDeletesOnlyK ==
    \A k \in Keys :
        LET once == outputSpent(svc, table, OwnTopic(svc), k)
            twice == outputSpent(svc, once.table, OwnTopic(svc), k)
        IN  /\ once.ret = Void
            /\ ~HasRow(once.table, k)
            /\ once.table = { r \in table : KeyOf(r) # k }
            /\ ~HasRow(table, k) => once.table = table
            /\ twice.table = once.table

C6_Witness ==
    /\ last.op = "outputSpent"
    /\ \E k1, k2 \in Keys :
          /\ hist[k1].st = "removed" /\ ~HasRow(table, k1)
          /\ k2.txid = k1.txid /\ HasRow(table, k2)

(* C7, as stated: for every table, key and spend notification, the table   *)
(* after an eviction of k equals the table after a spend of k.             *)
C7_EvictedEqualsSpent ==
    \A k \in Keys, topic \in Topics :
        outputEvicted(svc, table, k).table = outputSpent(svc, table, topic, k).table

(* C7, amended: for every table and key, the table after an eviction of k  *)
(* equals the table after a spend of k reported on the catalog's own       *)
(* topic; a spend reported on another topic leaves the table unchanged.    *)
C7_EvictedEqualsSpentOnOwnTopic ==
    \A k \in Keys :
        /\ outputEvicted(svc, table, k) = outputSpent(svc, table, OwnTopic(svc), k)
        /\ \A topic \in Topics \ {OwnTopic(svc)} :
               outputSpent(svc, table, topic, k) = Result(table, Void)

C7_Witness ==
    /\ last.op = "outputEvicted"
    /\ \E k1, k2 \in Keys :
          /\ hist[k1].st = "removed" /\ ~HasRow(table, k1)
          /\ k2.txid = k1.txid /\ HasRow(table, k2)

(* C8: an admission whose script fails decoding or the category's          *)
(* validation inserts no row, deletes no row and raises no error.          *)
C8_InvalidScriptIsNoOp ==
    [][ \A n \in Notifications(svc), k \in Keys :
            ( /\ OutputAdmittedByTopic(n[1], n[2], k, n[3])
              /\ ~MeetsSchema(svc, parseFromScript(svc, n[3])) )
            => (table' = table /\ last'.ret = Void) ]_vars

(* C10: every row in a catalog satisfies the validator schema of its       *)
(* category.                                                               *)
C10_RowsMeetSchema ==
    \A r \in table : RowMeetsSchema(svc, r)

(***************************************************************************)
(* The concurrent specification: NumCalls admission calls whose awaits     *)
(* interleave.  A call runs synchronously up to its first await (the       *)
(* guards and the parse), then each awaited Knex statement executes        *)
(* atomically at the database at some later time:                          *)
(*   service   idle -> delete -> insert -> done                            *)
(*   agent     idle -> insert -> done                                      *)
(* Calls are numbered in the order they start.  deletedAt and insertedAt   *)
(* record the position of the call's statements in the order the database  *)
(* executed them.  hist and last belong to the sequential specification    *)
(* and stay as they are.                                                   *)
(***************************************************************************)
RaceKeyList == << Key("tx1", 0), Key("tx2", 1), Key("tx1", 1), Key("tx2", 0) >>
RaceKeys == { RaceKeyList[i] : i \in 1..NumRaceKeys }

RacePayloads(c) ==
    IF c = AGENTS
    THEN { GoodIdentity, IdentityDoc(K1, N2, D2, JArr(<<>>)),
           IdentityDoc(K2, N1, D1, JArr(<<C1cap>>)) }
    ELSE { GoodService, ServiceDoc(K1, A, N2, D2, Pricing(Fixed, JNum(0))),
           ServiceDoc(K1, B, N1, D1, Pricing(Fixed, JNum(5))) }
RaceScripts(c) == { Legacy(Plain(PROTOCOL_ID), JsonText(d)) : d \in RacePayloads(c) }

CallIds == 1..NumCalls
Executed ==
    Cardinality({ c \in CallIds : calls[c].deletedAt > 0 })
    + Cardinality({ c \in CallIds : calls[c].insertedAt > 0 })

Begin(c, k, script) ==
    LET data == parseFromScript(svc, script) IN
    /\ calls[c].pc = "idle"
    /\ c > 1 => calls[c - 1].pc # "idle"
    /\ calls' = [calls EXCEPT ![c] =
                    [pc |-> IF data.t = "null" THEN "done"
                            ELSE IF svc = SERVICES THEN "delete" ELSE "insert",
                     key |-> k, data |-> data, ret |-> Void,
                     deletedAt |-> 0, insertedAt |-> 0]]
    /\ UNCHANGED <<svc, table, hist, last, submission, decode, messages, subscribers, overlay, invoices>>

DedupStatement(c) ==
    /\ calls[c].pc = "delete"
    /\ table' = DedupDelete(table, calls[c].key, calls[c].data)
    /\ calls' = [calls EXCEPT ![c].pc = "insert", ![c].deletedAt = Executed + 1]
    /\ UNCHANGED <<svc, hist, last, submission, decode, messages, subscribers, overlay, invoices>>

InsertStatement(c) ==
    LET res == IF svc = SERVICES
               THEN ServiceInsert(table, calls[c].key, calls[c].data)
               ELSE AgentInsert(table, calls[c].key, calls[c].data)
    IN  /\ calls[c].pc = "insert"
        /\ table' = res.table
        /\ calls' = [calls EXCEPT ![c].pc = "done", ![c].ret = res.ret,
                                  ![c].insertedAt = Executed + 1]
        /\ UNCHANGED <<svc, hist, last, submission, decode, messages, subscribers, overlay, invoices>>

RaceNext ==
    \/ \E c \in CallIds, k \in RaceKeys, script \in RaceScripts(svc) : Begin(c, k, script)
    \/ \E c \in CallIds : DedupStatement(c)
    \/ \E c \in CallIds : InsertStatement(c)

SpecRace == Init /\ [][RaceNext]_vars

(***************************************************************************)
(* Properties of the concurrent specification.                             *)
(***************************************************************************)
Writers(k) ==
    { c \in CallIds : calls[c].insertedAt > 0 /\ calls[c].ret = Void /\ calls[c].key = k }
LastWriter(k) ==
    CHOOSE c \in Writers(k) : \A d \in Writers(k) : calls[d].insertedAt <= calls[c].insertedAt
IsLastWriter(c) == c \in Writers(calls[c].key) /\ c = LastWriter(calls[c].key)

(* C3: two rows of one (identityKey, serviceId), at keys the dedup delete  *)
(* covers (differing in txid and in outputIndex), are in the table only    *)
(* when the calls that wrote them overlapped: each ran its dedup delete    *)
(* before the other's upsert.  Such an interleaving exists (C3_Witness).   *)
C3_DuplicatesOnlyWhenRaced ==
    svc = SERVICES =>
        \A r1, r2 \in table :
            (r1 # r2 /\ SamePair(r1, r2) /\ DifferInBoth(KeyOf(r1), KeyOf(r2))) =>
                LET c == LastWriter(KeyOf(r1))
                    d == LastWriter(KeyOf(r2))
                IN  /\ calls[c].deletedAt < calls[d].insertedAt
                    /\ calls[d].deletedAt < calls[c].insertedAt

C3_Witness ==
    /\ svc = SERVICES
    /\ \A c \in CallIds : calls[c].pc = "done"
    /\ \E r1, r2 \in table :
          r1 # r2 /\ SamePair(r1, r2) /\ DifferInBoth(KeyOf(r1), KeyOf(r2))

(* C4: the row a call has upserted (no later call having written its key)  *)
(* is missing exactly when another call for the same                       *)
(* (identityKey, serviceId), at a key differing in txid and outputIndex,   *)
(* ran its dedup delete after that upsert.  There is an interleaving in    *)
(* which the call that started first deletes the row of the call that      *)
(* started later and its own row survives (C4_Witness).                    *)
C4_FreshRowDeletedByDedup ==
    svc = SERVICES =>
        \A c \in CallIds :
            IsLastWriter(c) =>
                ( ~HasRow(table, calls[c].key)
                  <=> \E d \in CallIds \ {c} :
                          /\ calls[d].deletedAt > calls[c].insertedAt
                          /\ PairOf(calls[d].data) = PairOf(calls[c].data)
                          /\ DifferInBoth(calls[d].key, calls[c].key) )

C4_Witness ==
    /\ svc = SERVICES
    /\ calls[1].pc = "done" /\ calls[2].pc = "done"
    /\ PairOf(calls[1].data) = PairOf(calls[2].data)
    /\ calls[2].insertedAt < calls[1].deletedAt
    /\ ~HasRow(table, calls[2].key)
    /\ RowsAt(table, calls[1].key) = { ServiceRow(calls[1].key, calls[1].data) }

(* C9: the table never holds two rows with one key, and the row at a key   *)
(* is, field for field, the row of the payload whose upsert of that key    *)
(* executed last, also when admissions of the key overlap.                 *)
C9_KeyUniqueFullReplace ==
    \A k \in RaceKeys :
        /\ Cardinality(RowsAt(table, k)) <= 1
        /\ Writers(k) = {} => RowsAt(table, k) = {}
        /\ Writers(k) # {} =>
              /\ RowsAt(table, k) \subseteq { RowOf(svc, k, calls[LastWriter(k)].data) }
              /\ svc = AGENTS => HasRow(table, k)

C9_Witness ==
    \E c, d \in CallIds :
        /\ calls[c].pc = "done" /\ calls[d].pc = "done"
        /\ calls[c].key = calls[d].key
        /\ calls[c].data.name # calls[d].data.name
        /\ 0 < calls[d].deletedAt /\ calls[d].deletedAt < calls[c].insertedAt
        /\ calls[c].insertedAt < calls[d].insertedAt
        /\ RowsAt(table, calls[d].key) = { RowOf(svc, calls[d].key, calls[d].data) }

(***************************************************************************)
(* The topic managers.  Three implementations are in the repository:       *)
(*   IDENTITY_TM      ClawdbotIdentityTopicManager.ts, whose               *)
(*                    parseIdentityOutput is extractPayload in a try       *)
(*   SERVICES_TM      the built ClawdbotServicesTopicManager.js, whose     *)
(*                    parseServiceOutput re-parses OP_RETURN pushes and    *)
(*                    validates the payload                                *)
(*   SERVICES_TM_SRC  ClawdbotServicesTopicManager.ts, whose               *)
(*                    parseServiceOutput is extractPayload in a try        *)
(* A value [t |-> "thrown"] is an exception on its way up the stack.       *)
(***************************************************************************)
IDENTITY_TM == "ClawdbotIdentityTopicManager.ts"
SERVICES_TM == "ClawdbotServicesTopicManager.js"
SERVICES_TM_SRC == "ClawdbotServicesTopicManager.ts"
TopicManagers == {IDENTITY_TM, SERVICES_TM, SERVICES_TM_SRC}
CatalogOf(tm) == IF tm = IDENTITY_TM THEN AGENTS ELSE SERVICES

Thrown(e) == [t |-> "thrown", error |-> e]
Catch(v) == IF v.t = "thrown" THEN JNull ELSE v

JSONparse(text) == IF text.kind = "json" THEN text.doc ELSE Thrown("SyntaxError")

(* A PushDrop locking script: <public key> OP_CHECKSIG <field> OP_DROP.    *)
PubKeyData == [kind |-> "pubkey"]
PushDropScript(text) ==
    [chunks |-> << Chunk("PUSH", Bytes(PubKeyData)), Chunk("OP_CHECKSIG", NoData),
                   Chunk("PUSH", Bytes(text)), Chunk("OP_DROP", NoData) >>]

(* PushDrop.decode of @bsv/sdk, as far as extractPayload uses it: the      *)
(* first chunk must carry a public key (PublicKey.fromString throws        *)
(* otherwise); the fields are the chunks from the third on, and only the   *)
(* first field is read.                                                    *)
PushDropDecode(script) ==
    LET chunks == script.chunks IN
    IF Len(chunks) = 0 THEN Thrown("TypeError")
    ELSE IF ~(chunks[1].data.k = "bytes" /\ chunks[1].data.text.kind = "pubkey")
         THEN Thrown("Error")
    ELSE IF Len(chunks) < 3 THEN [t |-> "fields", fields |-> << >>]
    ELSE [t |-> "fields",
          fields |-> << IF chunks[3].data.k = "bytes" THEN chunks[3].data.text
                        ELSE Plain("") >>]

extractPayload(script) ==
    LET decoded == PushDropDecode(script) IN
    IF decoded.t = "thrown" THEN decoded
    ELSE IF decoded.fields = << >> THEN Thrown("TypeError")
    ELSE JSONparse(decoded.fields[1])

(* Variant: parseIdentityOutput without its try/catch.                     *)
parseIdentityOutputUncaught(script) == extractPayload(script)

parseIdentityOutput(script) == Catch(extractPayload(script))
parseServiceOutputSrc(script) == Catch(extractPayload(script))

(* extractOpReturnPushes of the built services topic manager: as in the    *)
(* lookup services, and the collapsed branch also knows PUSHDATA4.         *)
RECURSIVE ReparseBlobTM(_)
ReparseBlobTM(items) ==
    IF items = << >> THEN << >>
    ELSE IF Head(items).enc \in {"direct", "pd1", "pd2", "pd4"}
         THEN << Head(items).text >> \o ReparseBlobTM(Tail(items))
         ELSE << >>

extractOpReturnPushesTM(script) ==
    LET chunks == script.chunks IN
    IF /\ Len(chunks) >= 4
       /\ chunks[1].op = "OP_FALSE"
       /\ chunks[2].op = "OP_RETURN"
    THEN [ok |-> TRUE, pushes |-> LegacyPushes(SubSeq(chunks, 3, Len(chunks)))]
    ELSE IF /\ Len(chunks) = 2
            /\ chunks[1].op = "OP_FALSE"
            /\ chunks[2].op = "OP_RETURN"
            /\ chunks[2].data.k = "blob"
         THEN LET pushes == ReparseBlobTM(chunks[2].data.items) IN
              IF Len(pushes) >= 2 THEN [ok |-> TRUE, pushes |-> pushes] ELSE NoPushes
         ELSE NoPushes

MatchesHex66(v) == v.t = "string" /\ v.v.len = 66 /\ v.v.ch \in HexChars

(* The field checks of parseServiceOutput, inside its try: property access *)
(* on null throws, a JSON scalar has no protocol property.                 *)
ValidateServicePayload(payload) ==
    IF payload.t = "null" THEN Thrown("TypeError")
    ELSE IF payload.t # "object" THEN JNull
    ELSE IF payload.protocol # PROTOCOL_ID THEN JNull
    ELSE IF payload.type # "service" THEN JNull
    ELSE IF ~MatchesHex66(payload.identityKey) THEN JNull
    ELSE IF ~(payload.serviceId.t = "string" /\ payload.serviceId.v # << >>) THEN JNull
    ELSE IF ~(payload.name.t = "string" /\ payload.name.v # << >>) THEN JNull
    ELSE IF ~(payload.pricing.t = "object" /\ payload.pricing.model.t = "string") THEN JNull
    ELSE IF ~(payload.pricing.amountSats.t = "number" /\ payload.pricing.amountSats.v >= 0)
         THEN JNull
    ELSE IF payload.timestamp.t # "string" THEN JNull
    ELSE payload

parseServiceOutputTry(script) ==
    LET payload == JSONparse(extractOpReturnPushesTM(script).pushes[2]) IN
    IF payload.t = "thrown" THEN payload ELSE ValidateServicePayload(payload)

(* Variant: parseServiceOutput without its try/catch.                      *)
parseServiceOutputUncaught(script) ==
    LET ex == extractOpReturnPushesTM(script) IN
    IF ~ex.ok \/ Len(ex.pushes) < 2 THEN JNull
    ELSE IF ~(ex.pushes[1].kind = "plain" /\ ex.pushes[1].s = PROTOCOL_ID) THEN JNull
    ELSE parseServiceOutputTry(script)

parseServiceOutput(script) ==
    LET ex == extractOpReturnPushesTM(script) IN
    IF ~ex.ok \/ Len(ex.pushes) < 2 THEN JNull
    ELSE IF ~(ex.pushes[1].kind = "plain" /\ ex.pushes[1].s = PROTOCOL_ID) THEN JNull
    ELSE Catch(parseServiceOutputTry(script))

parseOutput(tm, script) ==
    IF tm = IDENTITY_TM THEN parseIdentityOutput(script)
    ELSE IF tm = SERVICES_TM THEN parseServiceOutput(script)
    ELSE parseServiceOutputSrc(script)

(* identifyAdmissibleOutputs: the loop over tx.outputs, i counting from 0. *)
(* An exception leaving the parse would leave the loop and the method.     *)
Output(script) == [lockingScript |-> script]
NoLockingScript == [lockingScript |-> JUndef]
Admittance(admit, retain) ==
    [kind |-> "ok", outputsToAdmit |-> admit, coinsToRetain |-> retain]

(* Variant: the previous coins are all retained. *)
coinsToRetainAll(previousCoins) == previousCoins

(* const coinsToRetain = []: the list starts empty, and the method never   *)
(* reads previousCoins nor adds to the list.                               *)
coinsToRetain(previousCoins) == << >>

RECURSIVE ScanOutputs(_, _, _, _, _)
ScanOutputs(tm, outputs, i, outputsToAdmit, retain) ==
    IF i >= Len(outputs) THEN Admittance(outputsToAdmit, retain)
    ELSE IF outputs[i + 1].lockingScript = JUndef
         THEN ScanOutputs(tm, outputs, i + 1, outputsToAdmit, retain)
    ELSE LET parsed == parseOutput(tm, outputs[i + 1].lockingScript) IN
         IF parsed.t = "thrown" THEN Throw(parsed.error)
         ELSE IF parsed # JNull
              THEN ScanOutputs(tm, outputs, i + 1, Append(outputsToAdmit, i), retain)
              ELSE ScanOutputs(tm, outputs, i + 1, outputsToAdmit, retain)

(* Variant: a transaction with an output that does not parse is rejected   *)
(* whole.                                                                  *)
RejectWholeTransaction(tm, outputs, previousCoins) ==
    LET r == ScanOutputs(tm, outputs, 0, << >>, coinsToRetain(previousCoins)) IN
    IF r.kind = "ok" /\ Len(r.outputsToAdmit) < Len(outputs)
    THEN Admittance(<< >>, r.coinsToRetain) ELSE r

identifyAdmissibleOutputs(tm, outputs, previousCoins) ==
    ScanOutputs(tm, outputs, 0, << >>, coinsToRetain(previousCoins))

(***************************************************************************)
(* The admission specification: the host gives a topic manager the outputs *)
(* of one transaction (at most MaxOutputs), the manager answers with the   *)
(* indices to admit, and the host then calls outputAdmittedByTopic of the  *)
(* category's lookup service once for each admitted index, in order, with  *)
(* the output's locking script.                                            *)
(***************************************************************************)
SubjectTxid == "tx1"

ScriptWithOpcodeBetween(d) ==
    [chunks |-> << Chunk("OP_FALSE", NoData), Chunk("OP_RETURN", NoData),
                   Chunk("PUSH", Bytes(Plain(PROTOCOL_ID))), Chunk("OP_1", NoData),
                   Chunk("PUSH", Bytes(JsonText(d))) >>]

TMOutputs ==
    { Output(Legacy(Plain(PROTOCOL_ID), JsonText(GoodService))),
      Output(Legacy(Plain(PROTOCOL_ID), Plain("{not json"))),
      Output(Legacy(Plain(PROTOCOL_ID), JsonText(JNull))),
      Output(Legacy(Plain(PROTOCOL_ID),
                    JsonText(ServiceDoc(K1, A, N1, D1, Pricing(Empty, JNum(5)))))),
      Output(Collapsed(<< Item("direct", Plain(PROTOCOL_ID)),
                          Item("pd4", JsonText(GoodService)) >>)),
      Output(ScriptWithOpcodeBetween(GoodService)),
      Output(PushDropScript(JsonText(GoodIdentity))),
      Output(PushDropScript(JsonText(
                 ServiceDoc(Short65, Empty, Empty, D1, Pricing(Fixed, JNum(-1)))))),
      NoLockingScript }

OutputLists == UNION { [1..n -> TMOutputs] : n \in 0..MaxOutputs }

(* previousCoins: the indices of the inputs that spend outputs admitted to *)
(* the topic before.                                                       *)
PreviousCoinLists == { << >>, << 0 >>, << 0, 1 >> }

InitTM ==
    /\ \E tm \in TopicManagers, outputs \in OutputLists, previousCoins \in PreviousCoinLists :
          /\ svc = CatalogOf(tm)
          /\ submission = [tm |-> tm, outputs |-> outputs, previousCoins |-> previousCoins,
                           result |-> [kind |-> "pending"], delivered |-> {}]
    /\ table = {}
    /\ hist = [k \in Keys |-> Never]
    /\ last = Call("none", Void)
    /\ calls = [c \in 1..NumCalls |-> NoCall]
    /\ decode = NoDecode
    /\ CatalogOnly

Admitted(result) ==
    IF result.kind = "ok"
    THEN { result.outputsToAdmit[j] : j \in 1..Len(result.outputsToAdmit) }
    ELSE {}

IdentifyAdmissibleOutputs ==
    /\ submission.result.kind = "pending"
    /\ submission' = [submission EXCEPT
                         !.result = identifyAdmissibleOutputs(submission.tm, submission.outputs,
                                                              submission.previousCoins)]
    /\ UNCHANGED <<svc, table, hist, last, calls, decode, messages, subscribers, overlay, invoices>>

HostDelivers(i) ==
    LET res == outputAdmittedByTopic(svc, table, "locking-script", OwnTopic(svc),
                                     Key(SubjectTxid, i),
                                     submission.outputs[i + 1].lockingScript)
    IN  /\ i \in Admitted(submission.result) \ submission.delivered
        /\ \A j \in Admitted(submission.result) \ submission.delivered : i <= j
        /\ table' = res.table
        /\ last' = Call("outputAdmittedByTopic", res.ret)
        /\ submission' = [submission EXCEPT !.delivered = @ \cup {i}]
        /\ UNCHANGED <<svc, hist, calls, decode, messages, subscribers, overlay, invoices>>

NextTM ==
    \/ IdentifyAdmissibleOutputs
    \/ \E i \in 0..(MaxOutputs - 1) : HostDelivers(i)

SpecTM == InitTM /\ [][NextTM]_vars

(***************************************************************************)
(* Properties of the admission specification.                              *)
(***************************************************************************)
Passes(tm, output) ==
    /\ output.lockingScript # JUndef
    /\ parseOutput(tm, output.lockingScript).t \notin {"null", "thrown"}

(* C11: the admitted indices are exactly the indices of the outputs that   *)
(* the manager's parse accepts, each output judged by itself, listed in    *)
(* strictly ascending order; outputs [valid, garbage, valid] give [0, 2].  *)
C11_AdmitsExactlyThePassingOutputs ==
    submission.result.kind = "ok" =>
        LET admit == submission.result.outputsToAdmit
            outputs == submission.outputs
        IN  /\ \A j \in 1..(Len(admit) - 1) : admit[j] < admit[j + 1]
            /\ Admitted(submission.result) \subseteq 0..(Len(outputs) - 1)
            /\ \A i \in 0..(Len(outputs) - 1) :
                   i \in Admitted(submission.result) <=> Passes(submission.tm, outputs[i + 1])

C11_Witness ==
    /\ submission.result.kind = "ok"
    /\ Len(submission.outputs) = 3
    /\ submission.result.outputsToAdmit = << 0, 2 >>
    /\ submission.outputs[2] = Output(Legacy(Plain(PROTOCOL_ID), Plain("{not json")))

ScriptAt(i) == submission.outputs[i + 1].lockingScript
PayloadAt(i) == parseOutput(submission.tm, ScriptAt(i))
ServiceManagers == {SERVICES_TM, SERVICES_TM_SRC}
HasPrefix(script) ==
    /\ Len(script.chunks) >= 2
    /\ script.chunks[1].op = "OP_FALSE"
    /\ script.chunks[2].op = "OP_RETURN"

(* C12: every output a topic manager admitted, once the host has called    *)
(* outputAdmittedByTopic of the category's lookup service with the same    *)
(* script, has a row in the catalog.                                       *)
C12_AdmittedIsIndexed ==
    \A i \in submission.delivered : HasRow(table, Key(SubjectTxid, i))

(* C13: every output a services topic manager admits carries a payload     *)
(* whose identityKey is exactly 66 hex characters, whose                   *)
(* pricing.amountSats is a non-negative number and whose serviceId is not  *)
(* empty.                                                                  *)
C13_ServicesManagerRejectsBadFields ==
    submission.tm \in ServiceManagers =>
        \A i \in Admitted(submission.result) :
            /\ PayloadAt(i).t = "object"
            /\ IsHex66(PayloadAt(i).identityKey)
            /\ PayloadAt(i).pricing.t = "object"
            /\ NonNegative(PayloadAt(i).pricing.amountSats)
            /\ NonEmpty(PayloadAt(i).serviceId)

(* C14: every output the identity topic manager admits carries a payload   *)
(* with a 66-hex-character identityKey, a non-empty string name and an     *)
(* array capabilities.                                                     *)
C14_IdentityManagerValidates ==
    submission.tm = IDENTITY_TM =>
        \A i \in Admitted(submission.result) :
            /\ PayloadAt(i).t = "object"
            /\ IsHex66(PayloadAt(i).identityKey)
            /\ NonEmpty(PayloadAt(i).name)
            /\ PayloadAt(i).capabilities.t = "array"

(* C15: a topic manager admits, and a catalog indexes, only payloads whose *)
(* type is the tag of its own category.                                    *)
C15_TypeIsolation ==
    /\ \A i \in Admitted(submission.result) :
          /\ PayloadAt(i).t = "object"
          /\ PayloadAt(i).type = OwnType(CatalogOf(submission.tm))
    /\ \A i \in submission.delivered :
          HasRow(table, Key(SubjectTxid, i)) =>
              parseFromScript(svc, ScriptAt(i)).type = OwnType(svc)

(* C16: a services topic manager admits no payload whose pricing.model is  *)
(* the empty string.                                                       *)
C16_EmptyPricingModelRejected ==
    submission.tm = SERVICES_TM =>
        \A i \in Admitted(submission.result) :
            ~( /\ PayloadAt(i).t = "object"
               /\ PayloadAt(i).pricing.t = "object"
               /\ PayloadAt(i).pricing.model = Empty )

(* The body of the try block of each manager's parse function.             *)
ParseTry(tm, script) ==
    IF tm = SERVICES_TM THEN parseServiceOutputUncaught(script) ELSE extractPayload(script)

(* C17: identifyAdmissibleOutputs completes normally for every list of     *)
(* outputs; an output whose decode or validation fails, also by an         *)
(* exception raised inside the parse, is absent from the admitted set.     *)
C17_FailuresAreSilent ==
    /\ submission.result.kind \in {"pending", "ok"}
    /\ \A i \in Admitted(submission.result) :
          ParseTry(submission.tm, ScriptAt(i)).t \notin {"null", "thrown"}

C17_Witness ==
    /\ submission.result.kind = "ok"
    /\ Admitted(submission.result) # {}
    /\ \E i \in 0..(Len(submission.outputs) - 1) :
          /\ ScriptAt(i) # JUndef
          /\ ParseTry(submission.tm, ScriptAt(i)).t = "thrown"
          /\ i \notin Admitted(submission.result)

(* C19: a script decodes to the same pushes (or to "not applicable" both   *)
(* times) whether the SDK exposes it as discrete chunks or as one blob     *)
(* after OP_RETURN, in the topic manager's and in the catalogs' decoder.   *)
Coalesce(script) ==
    Collapsed([j \in 1..(Len(script.chunks) - 2) |->
                  IF script.chunks[j + 2].data.k = "bytes"
                  THEN Item("direct", script.chunks[j + 2].data.text)
                  ELSE Item("badop", Plain(""))])
Agree(a, b) == a.ok = b.ok /\ (a.ok => a.pushes = b.pushes)

C19_SameInBothRepresentations ==
    (submission.tm = SERVICES_TM /\ submission.result.kind = "ok") =>
        \A i \in 0..(Len(submission.outputs) - 1) :
            ( /\ ScriptAt(i) # JUndef
              /\ HasPrefix(ScriptAt(i))
              /\ ScriptAt(i).chunks[2].data.k = "none" ) =>
                /\ Agree(extractOpReturnPushesTM(ScriptAt(i)),
                         extractOpReturnPushesTM(Coalesce(ScriptAt(i))))
                /\ Agree(extractOpReturnPushes(ScriptAt(i)),
                         extractOpReturnPushes(Coalesce(ScriptAt(i))))

(* C20: a script that does not start with OP_FALSE OP_RETURN is admitted   *)
(* by no topic manager and accepted by no catalog.                         *)
C20_PrefixRejection ==
    /\ \A i \in Admitted(submission.result) : HasPrefix(ScriptAt(i))
    /\ \A i \in submission.delivered :
          HasRow(table, Key(SubjectTxid, i)) => HasPrefix(ScriptAt(i))

(***************************************************************************)
(* The storage-failure specification: the sequential calls of the host,    *)
(* where any awaited Knex statement may reject (store unavailable,         *)
(* constraint violation).  A statement that rejects changes nothing; the   *)
(* handlers have no try/catch and no transaction, so the rejection leaves  *)
(* the handler at that await, with the statements before it already        *)
(* applied.  failAt names the statement that rejects, if any.              *)
(***************************************************************************)
FailurePoints == {"none", "delete", "insert"}
StorageError == Throw("StorageError")

AdmitFailing(c, T, k, script, failAt) ==
    LET data == parseFromScript(c, script) IN
    IF data.t = "null" THEN Result(T, Void)
    ELSE IF c = AGENTS
         THEN IF failAt = "insert" THEN Result(T, StorageError) ELSE AgentInsert(T, k, data)
    ELSE IF failAt = "delete" THEN Result(T, StorageError)
    ELSE IF data.pricing.t # "object" THEN ServiceInsert(DedupDelete(T, k, data), k, data)
    ELSE IF failAt = "insert" THEN Result(DedupDelete(T, k, data), StorageError)
    ELSE ServiceInsert(DedupDelete(T, k, data), k, data)

DeleteFailing(T, k, failAt) ==
    IF failAt = "delete" THEN Result(T, StorageError) ELSE Result(DeleteKey(T, k), Void)

StoreAdmitted(k, script, failAt) ==
    LET res == AdmitFailing(svc, table, k, script, failAt) IN
        /\ table' = res.table
        /\ last' = Call("outputAdmittedByTopic", res.ret)
        /\ UNCHANGED <<svc, hist, calls, submission, decode, messages, subscribers, overlay, invoices>>

StoreSpent(k, failAt) ==
    LET res == DeleteFailing(table, k, failAt) IN
        /\ table' = res.table
        /\ last' = Call("outputSpent", res.ret)
        /\ UNCHANGED <<svc, hist, calls, submission, decode, messages, subscribers, overlay, invoices>>

StoreEvicted(k, failAt) ==
    LET res == DeleteFailing(table, k, failAt) IN
        /\ table' = res.table
        /\ last' = Call("outputEvicted", res.ret)
        /\ UNCHANGED <<svc, hist, calls, submission, decode, messages, subscribers, overlay, invoices>>

NextStore ==
    \/ \E k \in Keys, script \in RaceScripts(svc), failAt \in FailurePoints :
           StoreAdmitted(k, script, failAt)
    \/ \E k \in Keys, failAt \in {"none", "delete"} : StoreSpent(k, failAt)
    \/ \E k \in Keys, failAt \in {"none", "delete"} : StoreEvicted(k, failAt)

SpecStore == Init /\ [][NextStore]_vars

(* C18: a call in which a storage statement fails leaves the table exactly *)
(* as it was before the call.                                              *)
C18_FailedCallLeavesTable ==
    [][ last'.ret = StorageError => table' = table ]_vars

(***************************************************************************)
(* Byte strings.  The blob chunks[1].data of a collapsed script is an      *)
(* array of bytes; here it is a sequence of segments, each a run of len    *)
(* equal bytes or len consecutive bytes (from offset off) of the UTF-8     *)
(* encoding of a text, so that a push of 65536 bytes is one segment.  A    *)
(* byte string is kept in normal form: no empty segment, no two adjacent   *)
(* runs of the same byte.                                                  *)
(***************************************************************************)
MaxDirect == 75
OP_PUSHDATA1 == 76
OP_PUSHDATA2 == 77
OP_PUSHDATA4 == 78

ByteRun(b, n) == [src |-> [k |-> "byte", v |-> b], off |-> 0, len |-> n]
TextSlice(text, off, n) == [src |-> [k |-> "text", text |-> text], off |-> off, len |-> n]

RECURSIVE Normal(_)
Normal(segs) ==
    IF segs = << >> THEN << >>
    ELSE IF Head(segs).len = 0 THEN Normal(Tail(segs))
    ELSE LET rest == Normal(Tail(segs)) IN
         IF /\ rest # << >>
            /\ Head(segs).src = Head(rest).src
            /\ \/ Head(segs).src.k = "byte"
               \/ Head(rest).off = Head(segs).off + Head(segs).len
         THEN << [Head(segs) EXCEPT !.len = @ + Head(rest).len] >> \o Tail(rest)
         ELSE << Head(segs) >> \o rest

RECURSIVE Concat(_)
Concat(parts) == IF parts = << >> THEN << >> ELSE Normal(Head(parts) \o Concat(Tail(parts)))

(* blob.length *)
RECURSIVE ByteLength(_)
ByteLength(blob) == IF blob = << >> THEN 0 ELSE Head(blob).len + ByteLength(Tail(blob))

(* The bytes of a text are printable ASCII: a JSON text starts with "{"    *)
(* (0x7b); every other byte is taken to be "x" (0x78).  Neither is a push  *)
(* opcode.                                                                 *)
TextByte(text, off) == IF text.kind = "json" /\ off = 0 THEN 123 ELSE 120

(* blob[pos]: undefined at and beyond blob.length. *)
RECURSIVE ByteAt(_, _)
ByteAt(blob, pos) ==
    IF blob = << >> \/ pos < 0 THEN JUndef
    ELSE IF pos < Head(blob).len
         THEN IF Head(blob).src.k = "byte" THEN JNum(Head(blob).src.v)
              ELSE JNum(TextByte(Head(blob).src.text, Head(blob).off + pos))
         ELSE ByteAt(Tail(blob), pos - Head(blob).len)

(* x ?? 0 *)
OrZero(x) == IF x.t = "undefined" THEN 0 ELSE x.v

Min(a, b) == IF a <= b THEN a ELSE b

RECURSIVE Drop(_, _)
Drop(blob, n) ==
    IF n <= 0 \/ blob = << >> THEN blob
    ELSE IF n >= Head(blob).len THEN Drop(Tail(blob), n - Head(blob).len)
    ELSE << [Head(blob) EXCEPT !.off = IF @ = 0 /\ Head(blob).src.k = "byte" THEN 0 ELSE @ + n,
                               !.len = @ - n] >> \o Tail(blob)

RECURSIVE Take(_, _)
Take(blob, n) ==
    IF n <= 0 \/ blob = << >> THEN << >>
    ELSE IF n >= Head(blob).len THEN << Head(blob) >> \o Take(Tail(blob), n - Head(blob).len)
    ELSE << [Head(blob) EXCEPT !.len = n] >>

(* blob.slice(start, end): both ends are clamped to the length, and an end *)
(* at or before the start gives the empty array.                           *)
Slice(blob, start, end) ==
    LET n == ByteLength(blob)
        a == Min(start, n)
        b == Min(end, n)
    IN  IF b <= a THEN << >> ELSE Normal(Take(Drop(blob, a), b - a))

(***************************************************************************)
(* The blob re-parsing loop of extractOpReturnPushes, one iteration of the *)
(* while loop as a function of the loop's variables.  The topic manager's  *)
(* copy clamps the end of a push with Math.min and knows PUSHDATA4; the    *)
(* lookup services' copy lets slice() clamp, moves pos past the end and    *)
(* stops at 0x4e.  The bytes of a length field are combined with | and <<, *)
(* which on bytes is the sum below (>>> 0 makes it unsigned).              *)
(***************************************************************************)
Cursor(pos, pushes, stopped) == [pos |-> pos, pushes |-> pushes, stopped |-> stopped]

LE16(blob, pos) == OrZero(ByteAt(blob, pos)) + 256 * OrZero(ByteAt(blob, pos + 1))
(* A length of 2^31 or more (top byte above 0x7f) is longer than every     *)
(* blob; it is represented by 2^31 - 1, and Math.min(start + len, length)  *)
(* is computed without forming the sum.                                    *)
LE32(blob, pos) ==
    IF OrZero(ByteAt(blob, pos + 3)) >= 128 THEN 2147483647
    ELSE OrZero(ByteAt(blob, pos)) + 256 * OrZero(ByteAt(blob, pos + 1))
            + 65536 * OrZero(ByteAt(blob, pos + 2))
            + 16777216 * OrZero(ByteAt(blob, pos + 3))

PushClamped(blob, c, start, len) ==
    LET end == IF len >= ByteLength(blob) - start THEN ByteLength(blob) ELSE start + len IN
    Cursor(end, Append(c.pushes, Slice(blob, start, end)), FALSE)

PushUnclamped(blob, c, start, len) ==
    Cursor(start + len, Append(c.pushes, Slice(blob, start, start + len)), FALSE)

(* Variants of the loop body: one that drops the pushes collected so far   *)
(* when it meets an unknown opcode, one that takes a PUSHDATA2 length as   *)
(* one byte.                                                               *)
TopicManagerIterationFailing(blob, c) ==
    LET op == ByteAt(blob, c.pos).v
        pos == c.pos + 1
    IN  IF op > 0 /\ op <= MaxDirect THEN PushClamped(blob, c, pos, op)
        ELSE IF op = OP_PUSHDATA1 THEN PushClamped(blob, c, pos + 1, OrZero(ByteAt(blob, pos)))
        ELSE IF op = OP_PUSHDATA2 THEN PushClamped(blob, c, pos + 2, LE16(blob, pos))
        ELSE IF op = OP_PUSHDATA4 THEN PushClamped(blob, c, pos + 4, LE32(blob, pos))
        ELSE Cursor(pos, << >>, TRUE)

TopicManagerIteration(blob, c) ==
    LET op == ByteAt(blob, c.pos).v
        pos == c.pos + 1
    IN  IF op > 0 /\ op <= MaxDirect THEN PushClamped(blob, c, pos, op)
        ELSE IF op = OP_PUSHDATA1 THEN PushClamped(blob, c, pos + 1, OrZero(ByteAt(blob, pos)))
        ELSE IF op = OP_PUSHDATA2 THEN PushClamped(blob, c, pos + 2, LE16(blob, pos))
        ELSE IF op = OP_PUSHDATA4 THEN PushClamped(blob, c, pos + 4, LE32(blob, pos))
        ELSE Cursor(pos, c.pushes, TRUE)

LookupServiceIteration(blob, c) ==
    LET op == ByteAt(blob, c.pos).v
        pos == c.pos + 1
    IN  IF op > 0 /\ op <= MaxDirect THEN PushUnclamped(blob, c, pos, op)
        ELSE IF op = OP_PUSHDATA1 THEN PushUnclamped(blob, c, pos + 1, OrZero(ByteAt(blob, pos)))
        ELSE IF op = OP_PUSHDATA2 THEN PushUnclamped(blob, c, pos + 2, LE16(blob, pos))
        ELSE Cursor(pos, c.pushes, TRUE)

TOPIC_MANAGER == "ClawdbotServicesTopicManager.extractOpReturnPushes"
LOOKUP_SERVICE == "ClawdbotServiceLookupService.extractOpReturnPushes"
Decoders == {TOPIC_MANAGER, LOOKUP_SERVICE}

Iteration(dec, blob, c) ==
    IF dec = TOPIC_MANAGER THEN TopicManagerIteration(blob, c) ELSE LookupServiceIteration(blob, c)

(* while (pos < blob.length) *)
LoopRuns(blob, c) == ~c.stopped /\ c.pos < ByteLength(blob)

(* return pushes.length >= 2 ? pushes : null *)
NotApplicable == [ok |-> FALSE, pushes |-> << >>]
Recovered(pushes) == IF Len(pushes) >= 2 THEN [ok |-> TRUE, pushes |-> pushes] ELSE NotApplicable

RECURSIVE ReparseFrom(_, _, _)
ReparseFrom(dec, blob, c) ==
    IF LoopRuns(blob, c) THEN ReparseFrom(dec, blob, Iteration(dec, blob, c))
    ELSE Recovered(c.pushes)

Reparse(dec, blob) == ReparseFrom(dec, blob, Cursor(0, << >>, FALSE))

(***************************************************************************)
(* The decoding specification: a collapsed script's blob is given to one   *)
(* of the two copies of the loop, which runs an iteration per step and     *)
(* then returns.  A blob is a concatenation of at most MaxElements         *)
(* elements: pushes as Script.writeBin encodes them, at the sizes where    *)
(* the encoding changes, single opcodes that are no push, and pushes cut   *)
(* short (a blob is what follows OP_RETURN in any script a transaction may *)
(* carry, so every byte string is an input).                               *)
(***************************************************************************)
MaxElements == 3

(* Data bytes are 0xaa; the opcode 0x51 stands for the opcodes that push   *)
(* no data.                                                                *)
Filler(n) == << ByteRun(170, n) >>
ProtocolBytes == << TextSlice(Plain(PROTOCOL_ID), 0, Len(PROTOCOL_ID)) >>

(* The length field of a push of n bytes, little-endian. *)
PushHeader(enc, n) ==
    IF enc = "direct" THEN << ByteRun(n, 1) >>
    ELSE IF enc = "pd1" THEN << ByteRun(OP_PUSHDATA1, 1), ByteRun(n, 1) >>
    ELSE IF enc = "pd2"
         THEN << ByteRun(OP_PUSHDATA2, 1), ByteRun(n % 256, 1), ByteRun(n \div 256, 1) >>
    ELSE << ByteRun(OP_PUSHDATA4, 1), ByteRun(n % 256, 1), ByteRun((n \div 256) % 256, 1),
            ByteRun((n \div 65536) % 256, 1), ByteRun(n \div 16777216, 1) >>

(* Script.writeBin: the shortest length field that holds the length. *)
MinimalEncoding(n) ==
    IF n <= MaxDirect THEN "direct"
    ELSE IF n < 256 THEN "pd1"
    ELSE IF n < 65536 THEN "pd2"
    ELSE "pd4"

Element(enc, declared, data) ==
    [enc |-> enc, declared |-> declared, data |-> Normal(data),
     bytes |-> Concat(<< PushHeader(enc, declared), data >>)]
WrittenPush(data) ==
    Element(MinimalEncoding(ByteLength(data)), ByteLength(data), data)
Opcode(b) == [enc |-> "opcode", declared |-> 0, data |-> << >>, bytes |-> << ByteRun(b, 1) >>]
OpOne == Opcode(81)
CutHeader(bytes) == [enc |-> "cut", declared |-> 0, data |-> << >>, bytes |-> Normal(bytes)]

BoundarySizes == {75, 76, 255, 256, 65535, 65536}

WholePushes ==
    { WrittenPush(ProtocolBytes) } \cup { WrittenPush(Filler(n)) : n \in BoundarySizes }
CutPushes ==
    { Element("direct", 10, Filler(3)),
      Element("pd1", 200, Filler(3)),
      Element("pd2", 300, Filler(5)),
      Element("pd4", 70000, Filler(5)),
      CutHeader(<< ByteRun(OP_PUSHDATA1, 1) >>),
      CutHeader(<< ByteRun(OP_PUSHDATA2, 1), ByteRun(5, 1) >>),
      CutHeader(<< ByteRun(OP_PUSHDATA4, 1), ByteRun(5, 1), ByteRun(0, 1) >>) }
Elements == WholePushes \cup CutPushes \cup { OpOne, Opcode(0) }

ElementLists == UNION { [1..n -> Elements] : n \in 0..MaxElements }

RECURSIVE BytesOf(_)
BytesOf(elements) ==
    IF elements = << >> THEN << >>
    ELSE Concat(<< Head(elements).bytes, BytesOf(Tail(elements)) >>)

InitDecode ==
    /\ svc = SERVICES
    /\ table = {}
    /\ hist = [k \in Keys |-> Never]
    /\ last = Call("none", Void)
    /\ calls = [c \in 1..NumCalls |-> NoCall]
    /\ submission = NoSubmission
    /\ \E dec \in Decoders, elements \in ElementLists :
          decode = [pc |-> "loop", dec |-> dec, elements |-> elements,
                    blob |-> BytesOf(elements), c |-> Cursor(0, << >>, FALSE),
                    result |-> NotApplicable]
    /\ CatalogOnly

Iterate ==
    /\ decode.pc = "loop"
    /\ LoopRuns(decode.blob, decode.c)
    /\ decode' = [decode EXCEPT !.c = Iteration(decode.dec, decode.blob, decode.c)]
    /\ UNCHANGED <<svc, table, hist, last, calls, submission, messages, subscribers, overlay, invoices>>

Return ==
    /\ decode.pc = "loop"
    /\ ~LoopRuns(decode.blob, decode.c)
    /\ decode' = [decode EXCEPT !.pc = "done", !.result = Recovered(decode.c.pushes)]
    /\ UNCHANGED <<svc, table, hist, last, calls, submission, messages, subscribers, overlay, invoices>>

NextDecode == Iterate \/ Return

SpecDecode == InitDecode /\ [][NextDecode]_vars

(***************************************************************************)
(* Properties of the decoding specification.                               *)
(***************************************************************************)
(* The opcodes each copy of the loop has a branch for. *)
Recognised(dec) ==
    IF dec = TOPIC_MANAGER THEN {"direct", "pd1", "pd2", "pd4"} ELSE {"direct", "pd1", "pd2"}

IsWhole(e) == e.enc \in {"direct", "pd1", "pd2", "pd4"} /\ e.declared = ByteLength(e.data)

(* The whole pushes that precede the first element the decoder has no      *)
(* branch for; defined when no push cut short precedes that element.       *)
RECURSIVE LeadingPushes(_, _)
LeadingPushes(dec, elements) ==
    IF elements = << >> THEN << >>
    ELSE IF IsWhole(Head(elements)) /\ Head(elements).enc \in Recognised(dec)
         THEN << Head(elements).data >> \o LeadingPushes(dec, Tail(elements))
         ELSE << >>

RECURSIVE StopsAtOpcode(_, _)
StopsAtOpcode(dec, elements) ==
    IF elements = << >> THEN TRUE
    ELSE IF IsWhole(Head(elements))
         THEN IF Head(elements).enc \in Recognised(dec)
              THEN StopsAtOpcode(dec, Tail(elements))
              ELSE TRUE
         ELSE Head(elements).enc = "opcode"

(* C21: re-parsing stops at the first opcode the decoder does not          *)
(* recognise and keeps the pushes collected before it; the result is those *)
(* pushes when there are at least two of them and "not applicable"         *)
(* otherwise: decoding fails exactly when fewer than 2 pushes were         *)
(* recovered.                                                              *)
C21_StopsAndKeeps ==
    decode.pc = "done" =>
        /\ decode.result.ok <=> Len(decode.c.pushes) >= 2
        /\ decode.result.ok => decode.result.pushes = decode.c.pushes
        /\ StopsAtOpcode(decode.dec, decode.elements) =>
               decode.result = Recovered(LeadingPushes(decode.dec, decode.elements))

C21_Witness ==
    /\ decode.pc = "done"
    /\ decode.dec = TOPIC_MANAGER
    /\ decode.elements = << WrittenPush(ProtocolBytes), WrittenPush(Filler(76)), OpOne >>
    /\ decode.c.stopped
    /\ decode.result = [ok |-> TRUE, pushes |-> << ProtocolBytes, Filler(76) >>]

(* C22: every decoder honours the whole pushdata opcode table: a blob of   *)
(* pushes written with the direct, PUSHDATA1, PUSHDATA2 and PUSHDATA4      *)
(* forms, at the sizes 75, 76, 255, 256, 65535 and 65536, decodes to one   *)
(* push of exactly that size for each, in the topic manager and in the     *)
(* catalogs alike.                                                         *)
C22_FullOpcodeTable ==
    ( /\ decode.pc = "done"
      /\ Len(decode.elements) >= 2
      /\ \A j \in 1..Len(decode.elements) : decode.elements[j] \in WholePushes )
    => /\ decode.result.ok
       /\ Len(decode.result.pushes) = Len(decode.elements)
       /\ \A j \in 1..Len(decode.elements) :
              /\ decode.result.pushes[j] = decode.elements[j].data
              /\ ByteLength(decode.result.pushes[j]) = decode.elements[j].declared

(* The push the bytes at pos declare, by the opcode table of the wire      *)
(* format: where its data starts and how long it says it is.               *)
IsPushOpcode(op) == op.t = "number" /\ op.v >= 1 /\ op.v <= OP_PUSHDATA4
DeclaredAt(blob, pos) ==
    LET op == ByteAt(blob, pos).v IN
    IF op <= MaxDirect THEN [start |-> pos + 1, len |-> op]
    ELSE IF op = OP_PUSHDATA1 THEN [start |-> pos + 2, len |-> OrZero(ByteAt(blob, pos + 1))]
    ELSE IF op = OP_PUSHDATA2 THEN [start |-> pos + 3, len |-> LE16(blob, pos + 1)]
    ELSE [start |-> pos + 5, len |-> LE32(blob, pos + 1)]
(* The length field is whole and says more than the bytes that remain. *)
CutShort(blob, pos) ==
    /\ IsPushOpcode(ByteAt(blob, pos))
    /\ DeclaredAt(blob, pos).start <= ByteLength(blob)
    /\ DeclaredAt(blob, pos).len > ByteLength(blob) - DeclaredAt(blob, pos).start

(* C30: in every iteration of the loop the cursor strictly advances; when  *)
(* the push declared at the cursor is longer than the bytes that remain,   *)
(* the iteration emits one push of exactly the remaining bytes, none from  *)
(* beyond the buffer, and the parse ends.                                  *)
C30_TruncationTolerated ==
    [][ (decode.pc = "loop" /\ decode'.pc = "loop") =>
          /\ decode'.c.pos > decode.c.pos
          /\ CutShort(decode.blob, decode.c.pos) =>
                /\ decode'.c.pushes =
                      Append(decode.c.pushes,
                             Slice(decode.blob, DeclaredAt(decode.blob, decode.c.pos).start,
                                   ByteLength(decode.blob)))
                /\ ~LoopRuns(decode.blob, decode'.c) ]_vars

(***************************************************************************)
(* The client's encoder and decoder (the shared utilities of the sample    *)
(* client).  JSON.stringify writes the properties a record has (strings,   *)
(* finite numbers, arrays of strings, the pricing object) and leaves out   *)
(* the undefined ones; the text of a document d is JsonText(d), and its    *)
(* length in bytes is computed from the properties the model carries (all  *)
(* ASCII).  A record's description is a run of one character here, given   *)
(* by its length.                                                          *)
(***************************************************************************)
RECURSIVE Digits(_)
Digits(n) == IF n < 10 THEN 1 ELSE 1 + Digits(n \div 10)

RECURSIVE JoinedLength(_)
JoinedLength(a) ==
    IF a = << >> THEN 0
    ELSE IF Len(a) = 1 THEN Len(a[1].v) + 2
    ELSE Len(a[1].v) + 3 + JoinedLength(Tail(a))

Member(key, valueLength) == Len(key) + 3 + valueLength

RECURSIVE SumWithCommas(_)
SumWithCommas(members) ==
    IF members = << >> THEN 0
    ELSE IF Len(members) = 1 THEN members[1]
    ELSE members[1] + 1 + SumWithCommas(Tail(members))

PricingLength(pr) ==
    2 + SumWithCommas(<< Member("model", Len(pr.model.v) + 2),
                         Member("amountSats", Digits(pr.amountSats.v)) >>)

JSONLength(d) ==
    2 + SumWithCommas(
          << Member("protocol", Len(d.protocol) + 2),
             Member("type", Len(d.type) + 2),
             Member("identityKey", d.identityKey.v.len + 2) >>
          \o (IF d.type = "service" THEN << Member("serviceId", Len(d.serviceId.v) + 2) >>
              ELSE << >>)
          \o << Member("name", Len(d.name.v) + 2),
                Member("description", d.description.v.len + 2) >>
          \o (IF d.type = "service" THEN << Member("pricing", PricingLength(d.pricing)) >>
              ELSE << Member("capabilities", 2 + JoinedLength(d.capabilities.v)) >>)
          \o << Member("timestamp", Len(d.timestamp.v) + 2) >>)

JSONstringifyPayload(payload) == JsonText(payload)
TextLength(text) == IF text.kind = "json" THEN JSONLength(text.doc) ELSE Len(text.s)

(* new TextEncoder().encode(text) *)
Encode(text) == << TextSlice(text, 0, TextLength(text)) >>

(* new TextDecoder().decode(bytes): the text when the bytes are the whole  *)
(* encoding of one, and some other string otherwise.                       *)
Decode(bytes) ==
    IF /\ Len(bytes) = 1
       /\ bytes[1].src.k = "text"
       /\ bytes[1].off = 0
       /\ bytes[1].len = TextLength(bytes[1].src.text)
    THEN bytes[1].src.text
    ELSE Plain("?")

(* buildOpReturnScript: OP_FALSE, OP_RETURN, then the two pushes. *)
buildOpReturnScript(payload) ==
    [opcodes |-> << "OP_FALSE", "OP_RETURN" >>,
     pushes |-> << WrittenPush(Encode(Plain(PROTOCOL_ID))),
                   WrittenPush(Encode(JSONstringifyPayload(payload))) >>]

(* script.chunks of the script as it comes back from the serialised        *)
(* transaction (Transaction.fromBEEF): one chunk per push in the SDK       *)
(* before v1.10, everything after OP_RETURN as the data of the OP_RETURN   *)
(* chunk from v1.10.  The installed SDK decides which.                     *)
SdkVersions == {"before-1.10", "1.10+"}
parseChunks(script, sdk) ==
    IF sdk = "before-1.10"
    THEN [chunks |-> << Chunk(script.opcodes[1], NoData), Chunk(script.opcodes[2], NoData) >>
                     \o [j \in 1..Len(script.pushes) |->
                            Chunk("PUSH", Bytes(Decode(script.pushes[j].data)))]]
    ELSE [chunks |-> << Chunk(script.opcodes[1], NoData),
                        Chunk(script.opcodes[2],
                              Blob([j \in 1..Len(script.pushes) |->
                                       Item(script.pushes[j].enc,
                                            Decode(script.pushes[j].data))])) >>]

(* parseOverlayOutput of the client, from output.lockingScript on. *)
parseOverlayOutput(script) ==
    LET chunks == script.chunks IN
    IF Len(chunks) < 4 THEN JNull
    ELSE IF chunks[1].op # "OP_FALSE" THEN JNull
    ELSE IF chunks[2].op # "OP_RETURN" THEN JNull
    ELSE IF chunks[3].data.k # "bytes" THEN JNull
    ELSE IF chunks[3].data.text # Plain(PROTOCOL_ID) THEN JNull
    ELSE IF chunks[4].data.k # "bytes" THEN JNull
    ELSE Catch(JSONparse(chunks[4].data.text))

(***************************************************************************)
(* The round-trip specification: a client builds the script of a valid     *)
(* record, the transaction travels to the overlay host and back, and the   *)
(* script's chunks are read by the client's parser, by the topic managers  *)
(* of the record's category and, for an admitted output, by the category's *)
(* lookup service.                                                         *)
(***************************************************************************)
DescriptionLengths == {0, 200, 70000}
Described(n) == JStr(Run("d", n))

ValidRecords ==
    { IdentityDoc(K1, N1, Described(n), JArr(<<C1cap>>)) : n \in DescriptionLengths }
    \cup { IdentityDoc(K2, N2, Described(n), JArr(<<>>)) : n \in DescriptionLengths }
    \cup { ServiceDoc(K1, A, N1, Described(n), Pricing(Fixed, JNum(5))) :
             n \in DescriptionLengths }
    \cup { ServiceDoc(K2, B, N2, Described(n), Pricing(Fixed, JNum(0))) :
             n \in DescriptionLengths }

CategoryOf(record) == IF record.type = "identity" THEN AGENTS ELSE SERVICES
ManagersOf(c) == { tm \in TopicManagers : CatalogOf(tm) = c }
Pending == [t |-> "pending"]

InitRoundTrip ==
    /\ \E record \in ValidRecords, sdk \in SdkVersions :
          /\ svc = CategoryOf(record)
          /\ decode = [pc |-> "record", record |-> record, sdk |-> sdk,
                       built |-> JUndef, script |-> JUndef, parsed |-> Pending,
                       admitted |-> [tm \in ManagersOf(CategoryOf(record)) |-> Pending]]
    /\ table = {}
    /\ hist = [k \in Keys |-> Never]
    /\ last = Call("none", Void)
    /\ calls = [c \in 1..NumCalls |-> NoCall]
    /\ submission = NoSubmission
    /\ CatalogOnly

BuildOpReturnScript ==
    /\ decode.pc = "record"
    /\ decode' = [decode EXCEPT !.pc = "built", !.built = buildOpReturnScript(decode.record)]
    /\ UNCHANGED <<svc, table, hist, last, calls, submission, messages, subscribers, overlay, invoices>>

FromBEEF ==
    /\ decode.pc = "built"
    /\ decode' = [decode EXCEPT !.pc = "delivered",
                                !.script = parseChunks(decode.built, decode.sdk)]
    /\ UNCHANGED <<svc, table, hist, last, calls, submission, messages, subscribers, overlay, invoices>>

ParseOverlayOutput ==
    /\ decode.pc = "delivered"
    /\ decode.parsed = Pending
    /\ decode' = [decode EXCEPT !.parsed = parseOverlayOutput(decode.script)]
    /\ UNCHANGED <<svc, table, hist, last, calls, submission, messages, subscribers, overlay, invoices>>

Admit(tm) ==
    /\ decode.pc = "delivered"
    /\ tm \in DOMAIN decode.admitted
    /\ decode.admitted[tm] = Pending
    /\ decode' = [decode EXCEPT !.admitted[tm] = parseOutput(tm, decode.script)]
    /\ UNCHANGED <<svc, table, hist, last, calls, submission, messages, subscribers, overlay, invoices>>

Index ==
    LET res == outputAdmittedByTopic(svc, table, "locking-script", OwnTopic(svc),
                                     Key(SubjectTxid, 0), decode.script)
    IN  /\ decode.pc = "delivered"
        /\ \E tm \in DOMAIN decode.admitted : decode.admitted[tm].t = "object"
        /\ table' = res.table
        /\ last' = Call("outputAdmittedByTopic", res.ret)
        /\ decode' = [decode EXCEPT !.pc = "indexed"]
        /\ UNCHANGED <<svc, hist, calls, submission, messages, subscribers, overlay, invoices>>

NextRoundTrip ==
    \/ BuildOpReturnScript
    \/ FromBEEF
    \/ ParseOverlayOutput
    \/ \E tm \in TopicManagers : Admit(tm)
    \/ Index

SpecRoundTrip == InitRoundTrip /\ [][NextRoundTrip]_vars

(* C23: round trip.  For every valid identity or service record, the       *)
(* script that encodes it decodes back to a payload equal to the record,   *)
(* in the client's parser and in the topic managers of the record's        *)
(* category, which admit the script; the category's catalog stores it.     *)
C23_RoundTrip ==
    /\ decode.pc \in {"delivered", "indexed"} =>
          /\ decode.parsed # Pending => decode.parsed = decode.record
          /\ \A tm \in DOMAIN decode.admitted :
                decode.admitted[tm] # Pending => decode.admitted[tm] = decode.record
    /\ decode.pc = "indexed" => HasRow(table, Key(SubjectTxid, 0))

(***************************************************************************)
(* The query specification: one lookup service, valid admissions and       *)
(* spends on its own topic, and lookups over every combination of the      *)
(* filter fields, each absent, empty or set.  The call record of a lookup  *)
(* carries the query.                                                      *)
(***************************************************************************)
EmptyKey == JStr(Run("a", 0))

QueryPayloads(c) ==
    IF c = AGENTS
    THEN { GoodIdentity,
           IdentityDoc(K1, N2, D2, JArr(<<>>)),
           IdentityDoc(K2, N1, D1, JArr(<<C1cap>>)) }
    ELSE { ServiceDoc(K1, A, N1, D1, Pricing(Fixed, JNum(5))),
           ServiceDoc(K1, B, N1, D1, Pricing(Fixed, JNum(6))),
           ServiceDoc(K2, A, N1, D1, Pricing(Fixed, JNum(0))) }

QueryFilters(c) ==
    IF c = AGENTS
    THEN { AgentQuery(ik, nm, cap) :
             ik \in {JUndef, K1, EmptyKey}, nm \in {JUndef, JStr(<<"B", "O">>)},
             cap \in {JUndef, C1cap} }
    ELSE { ServiceQuery(st, pv, mx) :
             st \in {JUndef, A, Empty}, pv \in {JUndef, K1},
             mx \in {JUndef, JNum(0), JNum(5)} }

LookupQuery(q) ==
    /\ \E answer \in lookup(svc, table, q) :
           last' = Call("lookup", [kind |-> "rows", keys |-> answer, query |-> q])
    /\ UNCHANGED <<svc, table, hist, calls, submission, decode, messages, subscribers, overlay, invoices>>

NextQuery ==
    \/ \E d \in QueryPayloads(svc), k \in Keys :
          OutputAdmittedByTopic("locking-script", OwnTopic(svc), k,
                                Legacy(Plain(PROTOCOL_ID), JsonText(d)))
    \/ \E k \in Keys : OutputSpent(OwnTopic(svc), k)
    \/ \E q \in QueryFilters(svc) : LookupQuery(q)

SpecQuery == Init /\ [][NextQuery]_vars

(* A filter field is present when the query object has it. *)
Present(v) == v.t # "undefined"

(* The rows a query asks for: every field present holds of the row. *)
Satisfies(c, r, q) ==
    IF c = AGENTS
    THEN /\ Present(q.identityKey) => r.identityKey = q.identityKey
         /\ Present(q.name) => Like(r.name, q.name.v)
         /\ Present(q.capability) => Like(r.capabilities, Quoted(q.capability.v))
    ELSE /\ Present(q.serviceType) => r.serviceId = q.serviceType
         /\ Present(q.provider) => r.identityKey = q.provider
         /\ Present(q.maxPriceSats) => r.pricingSats.v <= q.maxPriceSats.v

Asked(c, T, q) == { KeyOf(r) : r \in { x \in T : Satisfies(c, x, q) } }

(* C24: the filters are optional and conjunctive.  A lookup returns only   *)
(* keys of rows now in the table that satisfy every filter field present   *)
(* in the query, all of them when they are at most 100 (with no field      *)
(* present: all rows); an absent field does not restrict the result.       *)
C24_FiltersConjunctive ==
    last.op = "lookup" =>
        /\ last.ret.keys \subseteq Asked(svc, table, last.ret.query)
        /\ Cardinality(Asked(svc, table, last.ret.query)) <= LookupLimit =>
               last.ret.keys = Asked(svc, table, last.ret.query)

(***************************************************************************)
(* The cap specification: the outputs of one transaction with MaxRows      *)
(* outputs are admitted to one lookup service in order, and lookups run in *)
(* between.  The answer of a lookup is the list of pairs it returns.  The  *)
(* query has no ORDER BY: which rows come first is the database's choice,  *)
(* and the model lets it go through the keys upward or downward.           *)
(***************************************************************************)
MaxRows == 150

Unary(n) == JStr([j \in 1..n |-> "x"])
PriceCycle == << 5, 0, 5, 5, 6, 5, 5, 1 >>

(* The record in output i: identities alternate between two identity keys, *)
(* services are all of one provider, each with its own serviceId.          *)
CapPayload(c, i) ==
    IF c = AGENTS
    THEN IdentityDoc(IF i % 2 = 0 THEN K1 ELSE K2, N1, D1, JArr(<<C1cap>>))
    ELSE ServiceDoc(K1, Unary(i + 1), N1, D1,
                    Pricing(Fixed, JNum(PriceCycle[(i % Len(PriceCycle)) + 1])))

CapQueries(c) ==
    IF c = AGENTS
    THEN { AgentQuery(JUndef, JUndef, JUndef), AgentQuery(K1, JUndef, JUndef) }
    ELSE { ServiceQuery(JUndef, JUndef, JUndef), ServiceQuery(JUndef, JUndef, JNum(5)),
           ServiceQuery(JUndef, JUndef, JNum(0)) }

ScanDirections == {"up", "down"}

(* Those of the keys that are outputs lo..hi, in the order of the scan. *)
RECURSIVE Scan(_, _, _, _)
Scan(keys, lo, hi, dir) ==
    IF lo > hi THEN << >>
    ELSE IF lo = hi
    THEN IF Key(SubjectTxid, lo) \in keys THEN << Key(SubjectTxid, lo) >> ELSE << >>
    ELSE LET mid == (lo + hi) \div 2
             low == Scan(keys, lo, mid, dir)
             high == Scan(keys, mid + 1, hi, dir)
         IN  IF dir = "up" THEN low \o high ELSE high \o low

FirstN(seq, n) == IF Len(seq) <= n THEN seq ELSE SubSeq(seq, 1, n)

(* Variant: the query without .limit(100). *)
lookupRowsUnlimited(c, T, q, dir) == Scan({ KeyOf(r) : r \in Matching(c, T, q) }, 0, MaxRows - 1, dir)

(* select txid, outputIndex ... limit 100, the rows mapped to pairs. *)
lookupRows(c, T, q, dir) == FirstN(Scan({ KeyOf(r) : r \in Matching(c, T, q) }, 0, MaxRows - 1, dir), LookupLimit)

AdmitNext ==
    LET i == Cardinality(table)
        res == outputAdmittedByTopic(svc, table, "locking-script", OwnTopic(svc),
                                     Key(SubjectTxid, i),
                                     Legacy(Plain(PROTOCOL_ID), JsonText(CapPayload(svc, i))))
    IN  /\ i < MaxRows
        /\ table' = res.table
        /\ last' = Call("outputAdmittedByTopic", res.ret)
        /\ UNCHANGED <<svc, hist, calls, submission, decode, messages, subscribers, overlay, invoices>>

LookupRows(q, dir) ==
    /\ last' = Call("lookup", [kind |-> "rows", pairs |-> lookupRows(svc, table, q, dir),
                               query |-> q])
    /\ UNCHANGED <<svc, table, hist, calls, submission, decode, messages, subscribers, overlay, invoices>>

NextCap ==
    \/ AdmitNext
    \/ \E q \in CapQueries(svc), dir \in ScanDirections : LookupRows(q, dir)

SpecCap == Init /\ [][NextCap]_vars

Pairs(seq) == { seq[j] : j \in 1..Len(seq) }
NoPairTwice(seq) == \A i, j \in 1..Len(seq) : seq[i] = seq[j] => i = j

(* C25: a lookup never returns more than 100 pairs, returns no pair twice, *)
(* returns only matching rows, and returns exactly 100 pairs whenever more *)
(* than 100 rows match (150 rows and the empty filter: 100 results).       *)
C25_Cap ==
    last.op = "lookup" =>
        LET matching == Matching(svc, table, last.ret.query) IN
        /\ Len(last.ret.pairs) <= LookupLimit
        /\ NoPairTwice(last.ret.pairs)
        /\ Pairs(last.ret.pairs) \subseteq { KeyOf(r) : r \in matching }
        /\ Cardinality(matching) > LookupLimit => Len(last.ret.pairs) = LookupLimit
        /\ Cardinality(matching) <= LookupLimit =>
               Len(last.ret.pairs) = Cardinality(matching)

C25_Witness ==
    /\ last.op = "lookup"
    /\ Cardinality(table) = 150
    /\ \A f \in DOMAIN last.ret.query : last.ret.query[f] = JUndef
    /\ Len(last.ret.pairs) = 100

PricedAt(T, n) == { r \in T : r.pricingSats = JNum(n) }
PriceQuery ==
    /\ svc = SERVICES
    /\ last.op = "lookup"
    /\ last.ret.query.maxPriceSats.t = "number"

(* C26: maxPriceSats is an inclusive upper bound, for every number         *)
(* including 0: a lookup with maxPriceSats = m returns the services priced *)
(* at m and none priced at m + 1.                                          *)
C26_PriceBoundInclusive ==
    PriceQuery =>
        LET m == last.ret.query.maxPriceSats.v IN
        /\ \A r \in PricedAt(table, m) : KeyOf(r) \in Pairs(last.ret.pairs)
        /\ \A r \in PricedAt(table, m + 1) : KeyOf(r) \notin Pairs(last.ret.pairs)

(* C26 as amended: no service priced at m + 1 is returned, and every       *)
(* service priced at m is returned when at most 100 rows match the query.  *)
C26_PriceBoundInclusiveUnderCap ==
    PriceQuery =>
        LET m == last.ret.query.maxPriceSats.v IN
        /\ \A r \in PricedAt(table, m + 1) : KeyOf(r) \notin Pairs(last.ret.pairs)
        /\ Cardinality(Matching(svc, table, last.ret.query)) <= LookupLimit =>
               \A r \in PricedAt(table, m) : KeyOf(r) \in Pairs(last.ret.pairs)

C26_Witness ==
    /\ PriceQuery
    /\ last.ret.query.maxPriceSats = JNum(0)
    /\ \E r0 \in PricedAt(table, 0), r1 \in PricedAt(table, 1) :
          /\ KeyOf(r0) \in Pairs(last.ret.pairs)
          /\ KeyOf(r1) \notin Pairs(last.ret.pairs)

C29_EmptyRetainedCoins ==
    [][ (submission.result.kind = "pending" /\ submission'.result.kind # "pending")
        => /\ submission'.result.kind = "ok"
           /\ submission'.result.coinsToRetain = << >>
           /\ table' = table
           /\ hist' = hist
           /\ last' = last
           /\ submission' = [submission EXCEPT !.result = submission'.result]
      ]_vars

C29_Witness ==
    /\ submission.result.kind = "ok"
    /\ submission.previousCoins = << 0, 1 >>
    /\ submission.result.outputsToAdmit # << >>
    /\ submission.result.coinsToRetain = << >>

(***************************************************************************)
(* The readers specification: admissions run one at a time, each as the    *)
(* statements of the concurrent specification, and lookups run between any *)
(* two statements.  A lookup is one select: it reads the table at once.    *)
(* The answer records the positions of the admission calls at the time of  *)
(* the select.                                                             *)
(***************************************************************************)
SequentialBegin(c, k, script) ==
    /\ \A d \in CallIds : calls[d].pc \in {"idle", "done"}
    /\ Begin(c, k, script)

ReaderQueries(c) ==
    IF c = AGENTS
    THEN { AgentQuery(JUndef, JUndef, JUndef), AgentQuery(K1, JUndef, JUndef) }
    ELSE { ServiceQuery(JUndef, JUndef, JUndef), ServiceQuery(A, K1, JUndef) }

LookupDuring(q) ==
    /\ \E answer \in lookup(svc, table, q) :
           last' = Call("lookup", [kind |-> "rows", keys |-> answer, query |-> q,
                                   during |-> calls])
    /\ UNCHANGED <<svc, table, hist, calls, submission, decode, messages, subscribers, overlay, invoices>>

NextReaders ==
    \/ \E c \in CallIds, k \in RaceKeys, script \in RaceScripts(svc) :
          SequentialBegin(c, k, script)
    \/ \E c \in CallIds : DedupStatement(c)
    \/ \E c \in CallIds : InsertStatement(c)
    \/ \E q \in ReaderQueries(svc) : LookupDuring(q)

SpecReaders == Init /\ [][NextReaders]_vars

(* The table after the whole admission of a call, from the table before. *)
Admission(T, call) ==
    IF call.data.t = "null" THEN T
    ELSE IF svc = SERVICES
         THEN ServiceInsert(DedupDelete(T, call.key, call.data), call.key, call.data).table
         ELSE AgentInsert(T, call.key, call.data).table

(* The table after the admissions of calls 1..c, one after the other. *)
RECURSIVE TableAfter(_, _)
TableAfter(cs, c) == IF c = 0 THEN {} ELSE Admission(TableAfter(cs, c - 1), cs[c])

InFlight(cs) == { c \in CallIds : cs[c].pc \in {"delete", "insert"} }
Begun(cs) == Cardinality({ c \in CallIds : cs[c].pc # "idle" })

(* C27: a lookup that runs while an admission is in flight answers from    *)
(* the table as it was before that admission or as it is after it, never   *)
(* from a state in between; a lookup that runs when no admission is in     *)
(* flight answers from the table after all the completed admissions.  For  *)
(* a re-advertised service: the old row or the new one, not neither.       *)
C27_ReadersSeeBeforeOrAfter ==
    last.op = "lookup" =>
        LET cs == last.ret.during
            q == last.ret.query
            n == Begun(cs)
        IN  IF InFlight(cs) = {}
            THEN last.ret.keys \in lookup(svc, TableAfter(cs, n), q)
            ELSE last.ret.keys \in lookup(svc, TableAfter(cs, n - 1), q)
                                   \cup lookup(svc, TableAfter(cs, n), q)

(* The schema-valid service records among the admitted payloads. *)
ValidServiceScripts ==
    { Legacy(Plain(PROTOCOL_ID), JsonText(d)) :
        d \in { x \in ServicePayloads : MeetsSchema(SERVICES, x) } }
OtherPair(r, data) == r.identityKey # data.identityKey \/ r.serviceId # data.serviceId

Completed(c) == calls[c].pc = "done" /\ calls[c].data.t = "object" /\ calls[c].ret = Void
Started == { c \in CallIds : calls[c].pc # "idle" }
RowsOfPair(T, data) ==
    { r \in T : r.identityKey = data.identityKey /\ r.serviceId = data.serviceId }

(* C32: when concurrent service admissions of one (identityKey, serviceId) *)
(* have all completed, whatever the order in which their statements ran,   *)
(* the table holds at least one row of that pair.                          *)
C32_RaceNeverLosesThePair ==
    (svc = SERVICES /\ Started # {}) =>
        \A c \in Started :
            ( \A d \in Started : Completed(d) /\ PairOf(calls[d].data) = PairOf(calls[c].data) )
            => RowsOfPair(table, calls[c].data) # {}

(* Two admissions of one pair have completed, the dedup delete of one ran  *)
(* after the upsert of the other and removed its row: one row is left.     *)
C32_Witness ==
    /\ svc = SERVICES
    /\ \E c, d \in CallIds :
          /\ Completed(c) /\ Completed(d)
          /\ PairOf(calls[c].data) = PairOf(calls[d].data)
          /\ DifferInBoth(calls[c].key, calls[d].key)
          /\ calls[c].insertedAt < calls[d].deletedAt
          /\ ~HasRow(table, calls[c].key)
          /\ HasRow(table, calls[d].key)

ForeignTopics(c) == (Topics \cup {"tm_other"}) \ {OwnTopic(c)}

(* C33: a catalog reacts to its own topic only.  An admission notified on  *)
(* another topic, or in a mode other than 'locking-script', and a spend    *)
(* notified on another topic leave the table as it is and return; an       *)
(* eviction, which names no topic, deletes the row of the key in the       *)
(* catalog that receives it.                                               *)
C33_OwnTopicOnly ==
    \A k \in Keys :
        /\ \A script \in Scripts, mode \in Modes, topic \in Topics \cup {"tm_other"} :
              (topic # OwnTopic(svc) \/ mode # "locking-script")
              => outputAdmittedByTopic(svc, table, mode, topic, k, script) = Result(table, Void)
        /\ \A topic \in ForeignTopics(svc) :
              outputSpent(svc, table, topic, k) = Result(table, Void)
        /\ outputEvicted(svc, table, k) = Result({ r \in table : KeyOf(r) # k }, Void)

(* A spend has just been notified and every key still has its live row:    *)
(* the spend was on another topic.                                         *)
C33_Witness ==
    /\ last.op = "outputSpent"
    /\ \A k \in Keys : hist[k].st = "live" /\ HasRow(table, k)

(***************************************************************************)
(* The message relay (relay.ts): the relay_messages table, the clock, and  *)
(* the methods of MessageRelay, each one SQL statement.  Time is in        *)
(* milliseconds; the clock advances by the default maximum age, so that a  *)
(* message is at times younger than, exactly as old as, and older than the *)
(* cutoff.                                                                 *)
(***************************************************************************)
MaxMessages == 2
MaxTicks == 2

DefaultLimit == 50
DefaultMaxAgeMs == 24 * 60 * 60 * 1000
TickMs == DefaultMaxAgeMs
StartMs == DefaultMaxAgeMs

Agents == {"02a1", "03b2"}
MessageIds == 1..MaxMessages
CatalogVars == <<svc, table, hist, calls, submission, decode>>

Message(id, from, to, now) ==
    [id |-> id, fromKey |-> from, toKey |-> to, timestamp |-> now, acked |-> 0]

(* insert({id, fromKey, toKey, ..., timestamp: Date.now(), acked: 0}) *)
storeMessage(rows, id, from, to, now) == rows \cup { Message(id, from, to, now) }

(* where('toKey', identityKey).where('acked', 0), and where('timestamp',   *)
(* '>', sinceMs) when sinceMs is truthy.                                   *)
InboxRows(rows, identityKey, sinceMs) ==
    { r \in rows : /\ r.toKey = identityKey
                   /\ r.acked = 0
                   /\ (sinceMs.t = "number" /\ sinceMs.v # 0) => r.timestamp > sinceMs.v }

(* orderBy('timestamp', 'asc').limit(limit): the answers the database may  *)
(* give, rows of equal timestamp in any order.                             *)
getInbox(rows, identityKey, sinceMs, limit) ==
    LET found == InboxRows(rows, identityKey, sinceMs)
        n == IF Cardinality(found) <= limit THEN Cardinality(found) ELSE limit
    IN  { a \in [1..n -> found] :
            /\ \A i, j \in 1..n : i < j => a[i] # a[j] /\ a[i].timestamp <= a[j].timestamp
            /\ \A r \in found : (\A i \in 1..n : a[i] # r) =>
                   \A i \in 1..n : a[i].timestamp <= r.timestamp }

(* Variant: the update without where('toKey', identityKey). *)
ackAnyRecipient(rows, identityKey, messageIds) ==
    IF messageIds = {} THEN [rows |-> rows, count |-> 0]
    ELSE LET hit == { r \in rows : r.id \in messageIds } IN
         [rows |-> (rows \ hit) \cup { [r EXCEPT !.acked = 1] : r \in hit },
          count |-> Cardinality(hit)]

(* where('toKey', identityKey).whereIn('id', messageIds).update({acked: 1}) *)
ackMessages(rows, identityKey, messageIds) ==
    IF messageIds = {} THEN [rows |-> rows, count |-> 0]
    ELSE LET hit == { r \in rows : r.toKey = identityKey /\ r.id \in messageIds } IN
         [rows |-> (rows \ hit) \cup { [r EXCEPT !.acked = 1] : r \in hit },
          count |-> Cardinality(hit)]

(* Variant: messages exactly maxAgeMs old are deleted too. *)
cleanupAtCutoff(rows, now, maxAgeMs) ==
    LET cutoff == now - maxAgeMs
        gone == { r \in rows : r.timestamp <= cutoff \/ r.acked = 1 }
    IN  [rows |-> rows \ gone, count |-> Cardinality(gone)]

(* where('timestamp', '<', cutoff).orWhere('acked', 1).delete() *)
cleanup(rows, now, maxAgeMs) ==
    LET cutoff == now - maxAgeMs
        gone == { r \in rows : r.timestamp < cutoff \/ r.acked = 1 }
    IN  [rows |-> rows \ gone, count |-> Cardinality(gone)]

InitRelay ==
    /\ svc = AGENTS
    /\ table = {}
    /\ hist = [k \in Keys |-> Never]
    /\ last = Call("none", Void)
    /\ calls = [c \in 1..NumCalls |-> NoCall]
    /\ submission = NoSubmission
    /\ decode = NoDecode
    /\ messages = [rows |-> {}, now |-> StartMs, ticks |-> 0, issued |-> 0, everAcked |-> {}]
    /\ subscribers = Unused
    /\ overlay = Unused
    /\ invoices = Unused

(* randomUUID(): an id no message has had. *)
StoreMessage(from, to) ==
    LET id == messages.issued + 1 IN
    /\ messages.issued < MaxMessages
    /\ messages' = [messages EXCEPT !.rows = storeMessage(@, id, from, to, messages.now),
                                    !.issued = id]
    /\ last' = Call("storeMessage", [id |-> id, stored |-> TRUE])
    /\ UNCHANGED <<CatalogVars, subscribers, overlay, invoices>>

GetInbox(identityKey, sinceMs, limit) ==
    /\ \E answer \in getInbox(messages.rows, identityKey, sinceMs, limit) :
          last' = Call("getInbox", [identityKey |-> identityKey, sinceMs |-> sinceMs,
                                    limit |-> limit, inbox |-> answer])
    /\ UNCHANGED <<CatalogVars, messages, subscribers, overlay, invoices>>

AckMessages(identityKey, messageIds) ==
    LET res == ackMessages(messages.rows, identityKey, messageIds) IN
    /\ messages' = [messages EXCEPT
                       !.rows = res.rows,
                       !.everAcked = @ \cup { r.id : r \in { x \in res.rows : x.acked = 1 } }]
    /\ last' = Call("ackMessages", [identityKey |-> identityKey, messageIds |-> messageIds,
                                    count |-> res.count])
    /\ UNCHANGED <<CatalogVars, subscribers, overlay, invoices>>

Cleanup(maxAgeMs) ==
    LET res == cleanup(messages.rows, messages.now, maxAgeMs) IN
    /\ messages' = [messages EXCEPT !.rows = res.rows]
    /\ last' = Call("cleanup", [maxAgeMs |-> maxAgeMs, count |-> res.count])
    /\ UNCHANGED <<CatalogVars, subscribers, overlay, invoices>>

Tick ==
    /\ messages.ticks < MaxTicks
    /\ messages' = [messages EXCEPT !.now = @ + TickMs, !.ticks = @ + 1]
    /\ UNCHANGED <<CatalogVars, last, subscribers, overlay, invoices>>

SinceValues == { JUndef, JNum(StartMs) }
InboxLimits == { 1, DefaultLimit }

NextRelay ==
    \/ \E to \in Agents : StoreMessage("02a1", to)
    \/ \E i \in Agents, since \in SinceValues : GetInbox(i, since, DefaultLimit)
    \/ \E i \in Agents, ids \in SUBSET MessageIds : AckMessages(i, ids)
    \/ Cleanup(DefaultMaxAgeMs)
    \/ Tick

SpecRelay == InitRelay /\ [][NextRelay]_vars

AckedIn(rows) == { r.id : r \in { x \in rows : x.acked = 1 } }

(* C34: ackMessages(identity, ids) marks as acked only messages sent to    *)
(* that identity and named in ids; no operation sets acked back to 0; and  *)
(* no getInbox, for any identity, since and limit, returns a message that  *)
(* has been acked.                                                         *)
C34_AckOnlyOwnNeverReset ==
    [][ /\ \A r \in messages.rows, r2 \in messages'.rows :
              (r2.id = r.id /\ r.acked = 1) => r2.acked = 1
        /\ \A r2 \in messages'.rows :
              (r2.acked = 1 /\ r2.id \notin AckedIn(messages.rows))
              => /\ last'.op = "ackMessages"
                 /\ r2.toKey = last'.ret.identityKey
                 /\ r2.id \in last'.ret.messageIds
        /\ \A i \in Agents, since \in SinceValues \cup {JNum(0)}, limit \in InboxLimits :
              \A answer \in getInbox(messages'.rows, i, since, limit) :
                 \A j \in DOMAIN answer : answer[j].id \notin messages'.everAcked
      ]_vars

(* An identity has just acked a list of ids that names a message sent to   *)
(* someone else: its own message is acked, the other one is not.           *)
C34_Witness ==
    /\ last.op = "ackMessages"
    /\ last.ret.messageIds = {1, 2}
    /\ last.ret.count = 1
    /\ \E r1, r2 \in messages.rows :
          /\ r1.toKey = last.ret.identityKey /\ r1.acked = 1
          /\ r2.toKey # last.ret.identityKey /\ r2.acked = 0

Expired(r, now, maxAgeMs) == now - r.timestamp > maxAgeMs
Retrievable(rows, r) ==
    \E since \in SinceValues \cup {JNum(r.timestamp - 1)}, limit \in InboxLimits :
       \E answer \in getInbox(rows, r.toKey, since, limit) :
          \E j \in DOMAIN answer : answer[j] = r

(* C35: cleanup deletes exactly the messages that are acked or older than  *)
(* maxAgeMs.  Whatever the table and the time, after cleanup every acked   *)
(* or expired message is gone, and every unacked message no older than     *)
(* maxAgeMs is still there, unchanged, and can be fetched from its         *)
(* recipient's inbox.                                                      *)
C35_CleanupExact ==
    LET before == messages.rows
        res == cleanup(before, messages.now, DefaultMaxAgeMs)
    IN  /\ res.rows = { r \in before :
                          r.acked = 0 /\ ~Expired(r, messages.now, DefaultMaxAgeMs) }
        /\ res.count = Cardinality(before \ res.rows)
        /\ \A r \in res.rows : Retrievable(res.rows, r)

(* Cleanup has just deleted an acked message and kept an unacked one that  *)
(* is exactly maxAgeMs old.                                                *)
C35_Witness ==
    /\ last.op = "cleanup"
    /\ last.ret.count = 1
    /\ \E id \in messages.everAcked : \A r \in messages.rows : r.id # id
    /\ \E r \in messages.rows :
          r.acked = 0 /\ messages.now - r.timestamp = DefaultMaxAgeMs

(***************************************************************************)
(* The relay's WebSocket registry (relay.ts): the module-level subscribers *)
(* map and the sockets the server has accepted.  A socket's events are     *)
(* delivered one at a time; between them a socket may start closing, which *)
(* changes its readyState before its close event is delivered.  For each   *)
(* socket the model also remembers what has happened to it.                *)
(***************************************************************************)
MaxSockets == 2

Sockets == 1..MaxSockets
Pubkey(prefix, hex) == [t |-> "string", prefix |-> prefix, hex |-> hex]
NoIdentity == JNull
Identities ==
    { Pubkey("02", Run("a", 64)), Pubkey("03", Run("B", 64)),
      Pubkey("04", Run("a", 64)), Pubkey("02", Run("g", 64)), Pubkey("02", Run("a", 63)),
      NoIdentity }

(* !identity || !/^0[23][0-9a-fA-F]{64}$/.test(identity) *)
InvalidIdentity(identity) ==
    \/ identity.t # "string"
    \/ ~( /\ identity.prefix \in {"02", "03"}
          /\ identity.hex.len = 64
          /\ identity.hex.ch \in HexChars )

NoSocket ==
    [readyState |-> "NONE", identity |-> NoIdentity, handlers |-> FALSE,
     closed |-> FALSE, errored |-> FALSE]

(* subscribers.has / set / get(identity).add(ws) *)
register(map, identity, ws) ==
    IF identity \in DOMAIN map
    THEN [map EXCEPT ![identity] = @ \cup {ws}]
    ELSE [i \in DOMAIN map \cup {identity} |-> IF i = identity THEN {ws} ELSE map[i]]

(* Variant: the identity keeps its entry when its last socket leaves. *)
cleanupKeepingEntry(map, identity, ws) ==
    IF identity \in DOMAIN map THEN [map EXCEPT ![identity] = @ \ {ws}] ELSE map

(* const cleanup = () => { ... }: the handler of 'close' and of 'error'. *)
cleanupSubscriber(map, identity, ws) ==
    IF identity \in DOMAIN map
    THEN LET subs == map[identity] \ {ws} IN
         IF subs = {}
         THEN [i \in DOMAIN map \ {identity} |-> map[i]]
         ELSE [map EXCEPT ![identity] = subs]
    ELSE map

(* notifySubscriber: the sockets sent to, and the value returned. *)
notifySubscriber(map, sockets, toKey) ==
    IF toKey \notin DOMAIN map THEN [sent |-> {}, pushed |-> FALSE]
    ELSE IF map[toKey] = {} THEN [sent |-> {}, pushed |-> FALSE]
    ELSE LET open == { ws \in map[toKey] : sockets[ws].readyState = "OPEN" } IN
         [sent |-> open, pushed |-> open # {}]

InitSubscribers ==
    /\ svc = AGENTS
    /\ table = {}
    /\ hist = [k \in Keys |-> Never]
    /\ last = Call("none", Void)
    /\ calls = [c \in 1..NumCalls |-> NoCall]
    /\ submission = NoSubmission
    /\ decode = NoDecode
    /\ messages = Unused
    /\ subscribers = [map |-> << >>, sockets |-> [ws \in Sockets |-> NoSocket]]
    /\ overlay = Unused
    /\ invoices = Unused

(* wss.on('connection'): an invalid identity closes the socket and leaves  *)
(* no handler on it.                                                       *)
Connection(ws, identity) ==
    /\ subscribers.sockets[ws].readyState = "NONE"
    /\ IF InvalidIdentity(identity)
       THEN subscribers' = [subscribers EXCEPT
                !.sockets[ws] = [NoSocket EXCEPT !.readyState = "CLOSING",
                                                 !.identity = identity]]
       ELSE subscribers' = [subscribers EXCEPT
                !.map = register(@, identity, ws),
                !.sockets[ws] = [NoSocket EXCEPT !.readyState = "OPEN",
                                                 !.identity = identity,
                                                 !.handlers = TRUE]]
    /\ UNCHANGED <<CatalogVars, last, messages, overlay, invoices>>

(* The peer or the heartbeat starts closing the socket. *)
StartsClosing(ws) ==
    /\ subscribers.sockets[ws].readyState = "OPEN"
    /\ subscribers' = [subscribers EXCEPT !.sockets[ws].readyState = "CLOSING"]
    /\ UNCHANGED <<CatalogVars, last, messages, overlay, invoices>>

OnClose(ws) ==
    LET sock == subscribers.sockets[ws] IN
    /\ sock.readyState \in {"OPEN", "CLOSING"}
    /\ subscribers' = [subscribers EXCEPT
            !.map = IF sock.handlers THEN cleanupSubscriber(@, sock.identity, ws) ELSE @,
            !.sockets[ws].readyState = "CLOSED",
            !.sockets[ws].closed = TRUE]
    /\ UNCHANGED <<CatalogVars, last, messages, overlay, invoices>>

(* 'error' comes before the socket's 'close'; the socket may or may not    *)
(* still be OPEN when the handler returns.                                 *)
OnError(ws) ==
    LET sock == subscribers.sockets[ws] IN
    /\ sock.readyState \in {"OPEN", "CLOSING"}
    /\ ~sock.errored
    /\ \E state \in {sock.readyState, "CLOSING"} :
          subscribers' = [subscribers EXCEPT
              !.map = IF sock.handlers THEN cleanupSubscriber(@, sock.identity, ws) ELSE @,
              !.sockets[ws].readyState = state,
              !.sockets[ws].errored = TRUE]
    /\ UNCHANGED <<CatalogVars, last, messages, overlay, invoices>>

NotifySubscriber(toKey) ==
    LET res == notifySubscriber(subscribers.map, subscribers.sockets, toKey) IN
    /\ last' = Call("notifySubscriber", [toKey |-> toKey, sent |-> res.sent,
                                         pushed |-> res.pushed])
    /\ UNCHANGED <<CatalogVars, messages, subscribers, overlay, invoices>>

NextSubscribers ==
    \/ \E ws \in Sockets, identity \in Identities : Connection(ws, identity)
    \/ \E ws \in Sockets : StartsClosing(ws)
    \/ \E ws \in Sockets : OnClose(ws)
    \/ \E ws \in Sockets : OnError(ws)
    \/ \E toKey \in Identities \ {NoIdentity} : NotifySubscriber(toKey)

SpecSubscribers == InitSubscribers /\ [][NextSubscribers]_vars

(* The sockets that connected with this identity, valid, and have neither  *)
(* closed nor errored.                                                     *)
Subscribed(identity) ==
    { ws \in Sockets :
        LET sock == subscribers.sockets[ws] IN
        /\ sock.readyState # "NONE"
        /\ sock.identity = identity
        /\ ~InvalidIdentity(identity)
        /\ ~sock.closed
        /\ ~sock.errored }

(* C36: after any interleaving of connection, close and error events the   *)
(* subscribers map holds exactly the sockets that connected with a valid   *)
(* identity and have not closed or errored, and maps no identity to an     *)
(* empty set; notifySubscriber(to, m) sends m to every OPEN socket         *)
(* registered for to and returns true exactly when it sent to one.         *)
C36_RegistryExact ==
    LET map == subscribers.map IN
    /\ \A identity \in DOMAIN map : map[identity] # {}
    /\ \A identity \in Identities :
          Subscribed(identity) = IF identity \in DOMAIN map THEN map[identity] ELSE {}
    /\ DOMAIN map \subseteq Identities
    /\ \A toKey \in Identities \ {NoIdentity} :
          LET res == notifySubscriber(map, subscribers.sockets, toKey)
              open == { ws \in Subscribed(toKey) :
                          subscribers.sockets[ws].readyState = "OPEN" }
          IN  res.sent = open /\ (res.pushed <=> open # {})

(* Two sockets of one identity, one of them closing: a notification was    *)
(* sent to the open one alone and returned true.                           *)
C36_Witness ==
    /\ last.op = "notifySubscriber"
    /\ last.ret.pushed
    /\ \E w1, w2 \in Sockets :
          /\ w1 # w2
          /\ last.ret.toKey \in DOMAIN subscribers.map
          /\ subscribers.map[last.ret.toKey] = {w1, w2}
          /\ subscribers.sockets[w1].readyState = "OPEN"
          /\ subscribers.sockets[w2].readyState = "CLOSING"
          /\ last.ret.sent = {w1}

(***************************************************************************)
(* The overlay relay client (OverlayService): its fields, the timers it    *)
(* has set that have neither fired nor been cleared, the connect() calls   *)
(* awaiting the identity, and the sockets it has created, each with the    *)
(* handlers connect() put on it.  At most MaxAttempts sockets are created. *)
(***************************************************************************)
MaxAttempts == 7

InitialReconnectDelay == 1000
maxReconnectDelay == 30000

NoTimer == {}

(* Variant: the delay doubles without a maximum. *)
scheduleReconnectUncapped(o) ==
    IF o.reconnectTimer # NoTimer THEN o
    ELSE LET handle == o.timersSet + 1 IN
         [o EXCEPT !.reconnectTimer = {handle},
                   !.timers = @ \cup { [handle |-> handle, delay |-> o.reconnectDelay] },
                   !.timersSet = handle,
                   !.reconnectDelay = o.reconnectDelay * 2]

(* scheduleReconnect: setTimeout with the current delay, then the delay    *)
(* doubles up to the maximum.                                              *)
scheduleReconnect(o) ==
    IF o.reconnectTimer # NoTimer THEN o
    ELSE LET handle == o.timersSet + 1 IN
         [o EXCEPT !.reconnectTimer = {handle},
                   !.timers = @ \cup { [handle |-> handle, delay |-> o.reconnectDelay] },
                   !.timersSet = handle,
                   !.reconnectDelay = IF o.reconnectDelay * 2 <= maxReconnectDelay
                                      THEN o.reconnectDelay * 2 ELSE maxReconnectDelay]

(* stop(): clearTimeout and forget the timer, close and forget the socket. *)
(* The socket keeps its handlers.                                          *)
stop(o) ==
    LET cleared == IF o.reconnectTimer # NoTimer
                   THEN [o EXCEPT !.timers = { t \in @ : t.handle \notin o.reconnectTimer },
                                  !.reconnectTimer = NoTimer]
                   ELSE o
    IN  IF cleared.ws # 0
        THEN [cleared EXCEPT !.sockets[cleared.ws] =
                                 IF @ \in {"CONNECTING", "OPEN"} THEN "CLOSING" ELSE @,
                             !.ws = 0,
                             !.stopped = TRUE]
        ELSE [cleared EXCEPT !.stopped = TRUE]

InitOverlay ==
    /\ svc = AGENTS
    /\ table = {}
    /\ hist = [k \in Keys |-> Never]
    /\ last = Call("none", Void)
    /\ calls = [c \in 1..NumCalls |-> NoCall]
    /\ submission = NoSubmission
    /\ decode = NoDecode
    /\ messages = Unused
    /\ subscribers = Unused
    /\ overlay = [started |-> FALSE, stopped |-> FALSE, ws |-> 0,
                  sockets |-> [id \in 1..MaxAttempts |-> "NONE"], created |-> 0,
                  connecting |-> 0, connects |-> 0,
                  reconnectTimer |-> NoTimer, timers |-> {}, timersSet |-> 0,
                  reconnectDelay |-> InitialReconnectDelay]
    /\ invoices = Unused

OverlayOthers == <<CatalogVars, last, messages, subscribers, invoices>>

(* start(), and connect() up to its await. *)
Start ==
    /\ ~overlay.started
    /\ overlay' = [overlay EXCEPT !.started = TRUE, !.connecting = @ + 1, !.connects = @ + 1]
    /\ UNCHANGED OverlayOthers

(* connect() after the await: the socket is created and gets its handlers. *)
ConnectCreatesSocket ==
    LET id == overlay.created + 1 IN
    /\ overlay.connecting > 0
    /\ overlay.created < MaxAttempts
    /\ overlay' = [overlay EXCEPT !.connecting = @ - 1, !.created = id, !.ws = id,
                                  !.sockets[id] = "CONNECTING"]
    /\ UNCHANGED OverlayOthers

(* connect(): execOverlay or new WebSocket throws, the catch schedules a   *)
(* reconnect.                                                              *)
ConnectThrows ==
    /\ overlay.connecting > 0
    /\ overlay' = scheduleReconnect([overlay EXCEPT !.connecting = @ - 1])
    /\ UNCHANGED OverlayOthers

OnOpen(id) ==
    /\ overlay.sockets[id] = "CONNECTING"
    /\ overlay' = [overlay EXCEPT !.sockets[id] = "OPEN",
                                  !.reconnectDelay = InitialReconnectDelay]
    /\ UNCHANGED OverlayOthers

(* The socket's 'close' handler, after a failed connection, a lost one or  *)
(* a close(). *)
OnSocketClose(id) ==
    /\ overlay.sockets[id] \in {"CONNECTING", "OPEN", "CLOSING"}
    /\ overlay' = scheduleReconnect([overlay EXCEPT !.sockets[id] = "CLOSED"])
    /\ UNCHANGED OverlayOthers

(* The timer's callback: forget the timer, connect() up to its await. *)
TimerFires(t) ==
    /\ t \in overlay.timers
    /\ overlay.connects < MaxAttempts
    /\ overlay' = [overlay EXCEPT !.timers = @ \ {t},
                                  !.reconnectTimer = NoTimer,
                                  !.connecting = @ + 1,
                                  !.connects = @ + 1]
    /\ UNCHANGED OverlayOthers

Stop ==
    /\ overlay.started
    /\ ~overlay.stopped
    /\ overlay' = stop(overlay)
    /\ UNCHANGED OverlayOthers

NextOverlay ==
    \/ Start
    \/ ConnectCreatesSocket
    \/ ConnectThrows
    \/ \E id \in 1..MaxAttempts : OnOpen(id)
    \/ \E id \in 1..MaxAttempts : OnSocketClose(id)
    \/ \E t \in overlay.timers : TimerFires(t)
    \/ Stop

SpecOverlay == InitOverlay /\ [][NextOverlay]_vars

Scheduled == overlay'.timers \ overlay.timers

Doubled(delay) == IF delay * 2 <= maxReconnectDelay THEN delay * 2 ELSE maxReconnectDelay

Opened == \E id \in 1..MaxAttempts :
              overlay.sockets[id] # "OPEN" /\ overlay'.sockets[id] = "OPEN"

DelayInRangeOneTimer ==
    /\ overlay.reconnectDelay >= InitialReconnectDelay
    /\ overlay.reconnectDelay <= maxReconnectDelay
    /\ Cardinality(overlay.timers) <= 1

BackoffStep ==
    /\ Scheduled # {} =>
           /\ \A t \in Scheduled : t.delay = overlay.reconnectDelay
           /\ overlay'.reconnectDelay = Doubled(overlay.reconnectDelay)
    /\ Opened => overlay'.reconnectDelay = InitialReconnectDelay

(* C37: the reconnect delay is always between 1000 ms and 30000 ms, at     *)
(* most one reconnect timer is pending at any time, every reconnect that   *)
(* is scheduled is set with the delay of that moment, which then doubles   *)
(* up to 30000 ms, and a socket that opens resets the delay to 1000 ms.    *)
C37_ReconnectBackoff == [](DelayInRangeOneTimer) /\ [][BackoffStep]_vars

(* A reconnect is pending with the maximum delay, after a socket that had  *)
(* been created has closed.                                                *)
C37_Witness ==
    /\ \E t \in overlay.timers : t.delay = maxReconnectDelay
    /\ overlay.reconnectDelay = maxReconnectDelay
    /\ \E id \in 1..MaxAttempts : overlay.sockets[id] = "CLOSED"

NewAttempt == overlay'.connects > overlay.connects \/ overlay'.created > overlay.created

(* C38: once stop() has been called no reconnect timer is pending, none is *)
(* scheduled, and no connection attempt is made: connect() is not called   *)
(* again and no socket is created.                                         *)
C38_StaysStopped ==
    /\ [](overlay.stopped => overlay.timers = {})
    /\ [][overlay.stopped => Scheduled = {} /\ ~NewAttempt]_vars

(***************************************************************************)
(* The joke service's invoices: the in-memory invoice store, the clock,    *)
(* and the response of the last request.  At most MaxInvoices invoices are *)
(* requested and the clock advances MaxInvoiceTicks times, by the          *)
(* lifetime of an invoice each time.                                       *)
(***************************************************************************)
MaxInvoices == 2
MaxInvoiceTicks == 3

PRICE_SATS == 5
InvoiceLifetimeMs == 15 * 60 * 1000
MsPerDay == 24 * 60 * 60 * 1000

JOKES == { [setup |-> "What's a BEEF transaction's favorite food?",
            punchline |-> "Anything with a good proof of steak."],
           [setup |-> "Why did the satoshi cross the blockchain?",
            punchline |-> "To get to the other output."] }

(* Date.prototype.toISOString and new Date(iso): the calendar day and the  *)
(* time of day to the millisecond.                                         *)
toISOString(ms) == [day |-> ms \div MsPerDay, time |-> ms % MsPerDay]
DateOf(iso) == iso.day * MsPerDay + iso.time

InvoiceId(n) == JStr(<<n>>)

Response(code, fields) == [code |-> code, body |-> fields]

(* POST /bsv-pay/invoice with the id and the joke drawn for it. *)
postInvoice(store, now, invoiceId, joke) ==
    LET invoice == [invoiceId |-> invoiceId,
                    amountSats |-> PRICE_SATS,
                    createdAt |-> toISOString(now),
                    expiresAt |-> toISOString(now + InvoiceLifetimeMs),
                    status |-> "pending",
                    joke |-> joke]
    IN  [store |-> [id \in DOMAIN store \cup {invoiceId} |->
                       IF id = invoiceId THEN invoice ELSE store[id]],
         res |-> Response(200, [invoiceId |-> invoiceId,
                                amountSats |-> invoice.amountSats,
                                expiresAt |-> invoice.expiresAt])]

(* Variant: no expiry test. *)
postVerifyIgnoringExpiry(store, now, body) ==
    IF ~Truthy(body.invoiceId)
    THEN [store |-> store, res |-> Response(400, [error |-> "Missing invoiceId"])]
    ELSE IF body.invoiceId \notin DOMAIN store
    THEN [store |-> store, res |-> Response(404, [error |-> "Invoice not found"])]
    ELSE LET invoice == store[body.invoiceId] IN
         IF invoice.status = "paid"
         THEN [store |-> store,
               res |-> Response(200, [status |-> "paid", invoiceId |-> body.invoiceId,
                                      joke |-> invoice.joke])]
         ELSE IF ~Truthy(body.txid)
         THEN [store |-> store, res |-> Response(400, [error |-> "Missing txid"])]
         ELSE [store |-> [store EXCEPT ![body.invoiceId].status = "paid"],
               res |-> Response(200, [status |-> "paid", invoiceId |-> body.invoiceId,
                                      txid |-> body.txid, joke |-> invoice.joke])]

(* POST /bsv-pay/verify. *)
postVerify(store, now, body) ==
    IF ~Truthy(body.invoiceId)
    THEN [store |-> store, res |-> Response(400, [error |-> "Missing invoiceId"])]
    ELSE IF body.invoiceId \notin DOMAIN store
    THEN [store |-> store, res |-> Response(404, [error |-> "Invoice not found"])]
    ELSE LET invoice == store[body.invoiceId] IN
         IF invoice.status = "paid"
         THEN [store |-> store,
               res |-> Response(200, [status |-> "paid", invoiceId |-> body.invoiceId,
                                      joke |-> invoice.joke])]
         ELSE IF now > DateOf(invoice.expiresAt)
         THEN [store |-> [store EXCEPT ![body.invoiceId].status = "expired"],
               res |-> Response(410, [error |-> "Invoice expired"])]
         ELSE IF ~Truthy(body.txid)
         THEN [store |-> store, res |-> Response(400, [error |-> "Missing txid"])]
         ELSE [store |-> [store EXCEPT ![body.invoiceId].status = "paid"],
               res |-> Response(200, [status |-> "paid", invoiceId |-> body.invoiceId,
                                      txid |-> body.txid, joke |-> invoice.joke])]

InvoiceStartMs == MsPerDay - InvoiceLifetimeMs

InitInvoice ==
    /\ svc = AGENTS
    /\ table = {}
    /\ hist = [k \in Keys |-> Never]
    /\ last = Call("none", Void)
    /\ calls = [c \in 1..NumCalls |-> NoCall]
    /\ submission = NoSubmission
    /\ decode = NoDecode
    /\ messages = Unused
    /\ subscribers = Unused
    /\ overlay = Unused
    /\ invoices = [store |-> << >>, now |-> InvoiceStartMs, ticks |-> 0, issued |-> 0,
                   res |-> Response(0, << >>)]

InvoiceOthers == <<CatalogVars, last, messages, subscribers, overlay>>

(* generateInvoiceId(): an id no invoice has had; pickRandomJoke(). *)
PostInvoice(joke) ==
    LET r == postInvoice(invoices.store, invoices.now, InvoiceId(invoices.issued + 1), joke) IN
    /\ invoices.issued < MaxInvoices
    /\ invoices' = [invoices EXCEPT !.store = r.store, !.res = r.res, !.issued = @ + 1]
    /\ UNCHANGED InvoiceOthers

PostVerify(body) ==
    LET r == postVerify(invoices.store, invoices.now, body) IN
    /\ invoices' = [invoices EXCEPT !.store = r.store, !.res = r.res]
    /\ UNCHANGED InvoiceOthers

(* The clock advances by the lifetime of an invoice. *)
InvoiceTick ==
    /\ invoices.ticks < MaxInvoiceTicks
    /\ invoices' = [invoices EXCEPT !.now = @ + InvoiceLifetimeMs, !.ticks = @ + 1]
    /\ UNCHANGED InvoiceOthers

InvoiceIdValues == {JUndef, JStr(<< >>)} \cup { InvoiceId(n) : n \in 1..(MaxInvoices + 1) }
TxidValues == {JUndef, JStr(<< >>), JStr(<<"t", "x">>)}
VerifyBodies == [invoiceId : InvoiceIdValues, txid : TxidValues]

NextInvoice ==
    \/ \E joke \in JOKES : PostInvoice(joke)
    \/ \E body \in VerifyBodies : PostVerify(body)
    \/ InvoiceTick

SpecInvoice == InitInvoice /\ [][NextInvoice]_vars

HasJoke(res) == "joke" \in DOMAIN res.body

InvoiceHeld(id) == id \in DOMAIN invoices.store

(* What any verify request would do in the present state. *)
VerifyLifecycle(body) ==
    LET id == body.invoiceId
        r == postVerify(invoices.store, invoices.now, body)
    IN  /\ DOMAIN r.store = DOMAIN invoices.store
        /\ HasJoke(r.res) =>
               /\ InvoiceHeld(id)
               /\ r.store[id].status = "paid"
               /\ r.res.body.joke = invoices.store[id].joke
        /\ InvoiceHeld(id) =>
               LET before == invoices.store[id] IN
               /\ \A other \in DOMAIN invoices.store \ {id} :
                      r.store[other] = invoices.store[other]
               /\ [r.store[id] EXCEPT !.status = before.status] = before
               /\ before.status = "paid" =>
                      /\ r.store = invoices.store
                      /\ r.res.code = 200
                      /\ HasJoke(r.res)
               /\ before.status = "expired" => r.store[id].status = "expired"
               /\ before.status = "pending" /\ r.store[id].status = "paid" =>
                      /\ Truthy(body.txid)
                      /\ invoices.now <= DateOf(before.expiresAt)
               /\ before.status = "pending" /\ r.store[id].status = "expired" =>
                      invoices.now > DateOf(before.expiresAt)

(* What any invoice request would do in the present state. *)
InvoiceLifecycle(joke) ==
    LET id == InvoiceId(invoices.issued + 1)
        r == postInvoice(invoices.store, invoices.now, id, joke)
    IN  /\ r.store[id].status = "pending"
        /\ r.store[id].joke = joke
        /\ DateOf(r.store[id].expiresAt) = invoices.now + InvoiceLifetimeMs
        /\ ~HasJoke(r.res)
        /\ \A other \in DOMAIN invoices.store : r.store[other] = invoices.store[other]

LifecycleStep ==
    /\ \A id \in DOMAIN invoices.store :
           /\ id \in DOMAIN invoices'.store
           /\ invoices'.store[id].joke = invoices.store[id].joke
           /\ invoices'.store[id].status # invoices.store[id].status =>
                  /\ invoices.store[id].status = "pending"
                  /\ invoices'.store[id].status \in {"paid", "expired"}
    /\ \A id \in DOMAIN invoices'.store \ DOMAIN invoices.store :
           invoices'.store[id].status = "pending"

(* C39: an invoice starts pending and its status changes only from pending *)
(* to paid or from pending to expired; it becomes paid only by a verify    *)
(* request that carries a txid and arrives no later than expiresAt; a      *)
(* response carries a joke only when it is a verify response for an        *)
(* invoice that is paid, and the joke is the one sealed in that invoice; a *)
(* verify request for a paid invoice answers with that joke and changes    *)
(* nothing.                                                                *)
C39_InvoiceLifecycle ==
    /\ [](/\ \A body \in VerifyBodies : VerifyLifecycle(body)
          /\ \A joke \in JOKES : InvoiceLifecycle(joke)
          /\ HasJoke(invoices.res) =>
                 \E id \in DOMAIN invoices.store :
                     /\ invoices.store[id].status = "paid"
                     /\ invoices.res.body.joke = invoices.store[id].joke
                     /\ invoices.res.body.invoiceId = id)
    /\ [][LifecycleStep]_vars

(* One invoice has been paid at the moment it expires and its joke was     *)
(* returned, another was refused as expired.                               *)
C39_Witness ==
    /\ HasJoke(invoices.res)
    /\ \E id \in DOMAIN invoices.store :
           /\ invoices.store[id].status = "paid"
           /\ invoices.res.body.invoiceId = id
           /\ invoices.now = DateOf(invoices.store[id].expiresAt)
    /\ \E id \in DOMAIN invoices.store : invoices.store[id].status = "expired"

====
